---- MODULE Spec2Model ----
(***************************************************************************)
(* Model of the fe-staging-notification action of InjectiveLabs/github-fe: *)
(* the run() entry point (index.js), the Slack client (slack.js:           *)
(* slackRequest, searchExistingMessage, updateMessage, postMessage,        *)
(* postThreadReply, addMessageId) and the Jira ticket extraction (jira.js).*)
(*                                                                         *)
(* A message text is a sequence of lines; a line is a record               *)
(*   [tag, val, num]: the field label the code writes ("*Branch:*" ...),   *)
(* the strings interpolated into the line, and the message ts where the    *)
(* line carries one.  The regular expressions of slack.js work line by     *)
(* line and are modelled on this representation.                           *)
(***************************************************************************)
EXTENDS Integers, Sequences, FiniteSets, TLC

(* ------------------------------ bounds -------------------------------- *)
\* number of runs of the action that are started, one after the other or
\* overlapping
MaxRuns == 2
\* number of Slack attempts, over all runs, that may end in a failure
MaxFaults == 1
\* number of successive updates of one thread
MaxUpdates == 3

(* ------------------------- program constants -------------------------- *)
MAX_RETRIES == 3
RETRY_DELAY_MS == 2000

(* ----------------------------- sequences ------------------------------ *)
RECURSIVE Dedupe(_)
\* [...new Set(seq)]: first occurrences, in order
Dedupe(s) ==
  IF s = <<>> THEN <<>>
  ELSE LET init == Dedupe(SubSeq(s, 1, Len(s) - 1))
           last == s[Len(s)]
       IN IF \E i \in 1..Len(init) : init[i] = last THEN init
          ELSE Append(init, last)

RECURSIVE Flatten(_)
Flatten(ss) ==
  IF ss = <<>> THEN <<>> ELSE Head(ss) \o Flatten(Tail(ss))

Range(s) == { s[i] : i \in 1..Len(s) }

Reverse(s) == [ i \in 1..Len(s) |-> s[Len(s) + 1 - i] ]

(* ------------------------ strings of the inputs ----------------------- *)
Repo == "Helix"
Network == "testnet"
Description == "Frontend deployment"
Author == "octocat"
Branches == { "feat/IL-101", "feat/IL-101-v2" }
\* staging_url of the k-th run: every deployment has its own preview URL
StagingUrlOf(k) == IF k = 0 THEN "https://preview-0.staging"
                   ELSE IF k = 1 THEN "https://preview-1.staging"
                   ELSE IF k = 2 THEN "https://preview-2.staging"
                   ELSE IF k = 3 THEN "https://preview-3.staging"
                   ELSE "https://preview-4.staging"
\* the matches of JIRA_PATTERN in `git log origin/dev..HEAD --oneline`
CommitMatches == { <<>>, <<"IL-101">>, <<"il-102", "IL-102">>,
                   <<"IL-103", "IL-101", "IL-102">>, <<"IL-102", "il-103">> }
\* String.prototype.toUpperCase on a ticket key
toUpperCase(t) == IF t = "il-101" THEN "IL-101"
                  ELSE IF t = "il-102" THEN "IL-102"
                  ELSE IF t = "il-103" THEN "IL-103" ELSE t

\* the matches of /IL-\d{3,5}/gi inside one interpolated string
MatchesIn(s) ==
  IF s \in { "feat/IL-101", "feat/IL-101-v2", "IL-101" } THEN <<"IL-101">>
  ELSE IF s \in { "il-101" } THEN <<"il-101">>
  ELSE IF s \in { "IL-102" } THEN <<"IL-102">>
  ELSE IF s \in { "il-102" } THEN <<"il-102">>
  ELSE IF s \in { "IL-103" } THEN <<"IL-103">>
  ELSE IF s \in { "il-103" } THEN <<"il-103">>
  ELSE <<>>

\* s.includes(term) for the quoted terms of the search query
StringIncludes(s, term) ==
  \/ s = term
  \/ s = "feat/IL-101-v2" /\ term = "feat/IL-101"

(* ------------------------------- texts -------------------------------- *)
Line(tag, val, num) == [tag |-> tag, val |-> val, num |-> num]
BlankLine == Line("", <<>>, 0)

\* text.includes(term)
TextIncludes(text, term) ==
  \E i \in 1..Len(text) : \E j \in 1..Len(text[i].val) :
      StringIncludes(text[i].val[j], term)

\* the matches of /IL-\d{3,5}/gi in one line, left to right; a Jira link
\* <base/T|T> and a URL link <u|u> contain their string twice
LineMatches(l) ==
  LET once == Flatten([ j \in 1..Len(l.val) |-> MatchesIn(l.val[j]) ])
  IN IF l.tag \in { "Jira tickets", "Staging URL" } THEN
       Flatten([ j \in 1..Len(l.val) |->
                   MatchesIn(l.val[j]) \o MatchesIn(l.val[j]) ])
     ELSE once

\* slack.js extractJiraFromText, applied to lines: text.match(/IL-\d{3,5}/gi)
\* || [], upper-cased, each once
extractJiraFromText(text) ==
  LET matches == Flatten([ i \in 1..Len(text) |-> LineMatches(text[i]) ])
  IN Dedupe([ i \in 1..Len(matches) |-> toUpperCase(matches[i]) ])

\* jira.js extractJiraTickets: unique upper-cased matches of the commit log
extractJiraTickets(commitMatches) ==
  Dedupe([ i \in 1..Len(commitMatches) |-> toUpperCase(commitMatches[i]) ])

\* the value of the first "*Jira tickets:*" field of a text (<<>> if none)
JiraField(text) ==
  LET idx == { i \in 1..Len(text) : text[i].tag = "Jira tickets" }
  IN IF idx = {} THEN <<>>
     ELSE text[CHOOSE i \in idx : \A k \in idx : i <= k].val

\* the values of all "*Staging URL:*" fields of a text, in order
StagingUrlFields(text) ==
  Flatten([ i \in 1..Len(text) |->
              IF text[i].tag = "Staging URL" THEN text[i].val ELSE <<>> ])

RECURSIVE TrimStart(_)
TrimStart(text) ==
  IF text # <<>> /\ Head(text) = BlankLine THEN TrimStart(Tail(text))
  ELSE text

(* ----------------------- slack.js: message texts ---------------------- *)
\* jira.js generateJiraLinks: one link per ticket, '' for no ticket; the
\* links are kept as the sequence of their tickets
generateJiraLinks(tickets) == tickets

\* postMessageText without its Branch line
postMessageText_noBranch(repo, network, branchName, description, stagingUrl, author, jiraLinks) ==
  << Line("Header", <<repo, network>>, 0),
     BlankLine,
     Line("Description", <<description>>, 0),
     Line("Staging URL", <<stagingUrl>>, 0),
     Line("Author", <<author>>, 0) >>
  \o (IF jiraLinks # <<>> THEN << Line("Jira tickets", jiraLinks, 0) >>
      ELSE <<>>)

\* slack.js postMessage: the text of a new root message
postMessageText(repo, network, branchName, description, stagingUrl, author, jiraLinks) ==
  << Line("Header", <<repo, network>>, 0),
     BlankLine,
     Line("Branch", <<branchName>>, 0),
     Line("Description", <<description>>, 0),
     Line("Staging URL", <<stagingUrl>>, 0),
     Line("Author", <<author>>, 0) >>
  \o (IF jiraLinks # <<>> THEN << Line("Jira tickets", jiraLinks, 0) >>
      ELSE <<>>)

\* slack.js postThreadReply: the text of a threaded reply
postThreadReplyText(network, description, stagingUrl, author) ==
  << Line("New staging link deployed", <<network>>, 0),
     Line("Description", <<description>>, 0),
     Line("Staging URL", <<stagingUrl>>, 0),
     Line("Author", <<author>>, 0) >>

\* slack.js addMessageId: originalText plus the Message ID line
addMessageIdText(originalText, messageTs) ==
  Append(originalText, Line("Message ID", <<>>, messageTs))

\* RemoveStagingUrl with the replace left out: the old field stays
RemoveStagingUrl_kept(text, inList) == text

RECURSIVE RemoveStagingUrl(_, _)
\* updatedText.replace(/\*Staging URLs?:\*[^\n]*(\n- [^\n]+)*/g, ''): the
\* field's line is emptied (its line break stays) and the "- " list lines
\* that follow it go with their line breaks; inList: the previous line was
\* part of the match
RemoveStagingUrl(text, inList) ==
  IF text = <<>> THEN <<>>
  ELSE IF Head(text).tag = "Staging URL"
       THEN <<BlankLine>> \o RemoveStagingUrl(Tail(text), TRUE)
  ELSE IF inList /\ Head(text).tag = "- "
       THEN RemoveStagingUrl(Tail(text), TRUE)
  ELSE <<Head(text)>> \o RemoveStagingUrl(Tail(text), FALSE)

\* ticketsToAdd without the filter: every new ticket is appended
ticketsToAdd_unfiltered(newJiraTickets, existingJiraTickets) ==
  newJiraTickets

\* newJiraTickets.filter((t) => !existingJiraTickets.includes(t))
ticketsToAdd(newJiraTickets, existingJiraTickets) ==
  SelectSeq(newJiraTickets, LAMBDA t : t \notin Range(existingJiraTickets))

\* AppendToJiraLine with the replace left out: the field stays as it was
AppendToJiraLine_unchanged(text, newLinks) == text

\* updatedText.replace(/(\*Jira tickets:\* [^\n]*)/, `$1, ${newLinks}`):
\* the links go to the end of the first Jira tickets line
AppendToJiraLine(text, newLinks) ==
  LET idx == { i \in 1..Len(text) : text[i].tag = "Jira tickets" }
      first == CHOOSE i \in idx : \A k \in idx : i <= k
  IN IF idx = {} THEN text
     ELSE [text EXCEPT ![first] = [@ EXCEPT !.val = @ \o newLinks]]

\* slack.js updateMessage: the text sent to chat.update
updateMessageText(currentText, stagingUrl, newJiraTickets, existingJiraTickets) ==
  \* String.prototype.trim on lines: empty lines at both ends go
  LET Trim(text) == Reverse(TrimStart(Reverse(TrimStart(text))))
  IN
  LET withUrl ==
        IF stagingUrl # "" THEN
          Append(Trim(RemoveStagingUrl(currentText, FALSE)),
                 Line("Staging URL", <<stagingUrl>>, 0))
        ELSE currentText
      toAdd == ticketsToAdd(newJiraTickets, existingJiraTickets)
      newLinks == generateJiraLinks(toAdd)
  IN IF Len(toAdd) > 0 THEN
       IF \E i \in 1..Len(withUrl) : withUrl[i].tag = "Jira tickets"
       THEN AppendToJiraLine(withUrl, newLinks)
       ELSE Append(withUrl, Line("Jira tickets", newLinks, 0))
     ELSE withUrl

(* --------------------- the Slack channel (remote) --------------------- *)
\* a stored message: its ts, the ts of its thread's root (0: not a reply)
\* and its text
Msg(ts, thread_ts, text) == [ts |-> ts, thread_ts |-> thread_ts, text |-> text]
\* chat.postMessage on the platform: a message with a fresh ts is stored
ChatPostMessage(ch, ts, thread_ts, text) == Append(ch, Msg(ts, thread_ts, text))

\* chat.update on the platform: the text of the message with this ts
ChatUpdate(ch, ts, text) ==
  [ i \in 1..Len(ch) |-> IF ch[i].ts = ts THEN [ch[i] EXCEPT !.text = text]
                         ELSE ch[i] ]

\* search.messages with the query `in:#channel "repo" "branch" after:date`,
\* sort=timestamp: the messages of the channel whose text has both quoted
\* terms, most recent first (all messages are inside the 30 day window)
SearchMessages(ch, repo, branchName) ==
  SelectSeq(Reverse(ch), LAMBDA m : /\ TextIncludes(m.text, repo)
                                    /\ TextIncludes(m.text, branchName))

\* conversations.replies for ts: the root with its replies in order, or the
\* single message when ts is the ts of a reply
ConversationsReplies(ch, ts) ==
  LET own == SelectSeq(ch, LAMBDA m : m.ts = ts)
  IN IF own # <<>> /\ own[1].thread_ts = 0
     THEN own \o SelectSeq(ch, LAMBDA m : m.thread_ts = ts)
     ELSE own

\* the root messages of the channel composed for (repo, branch)
RootsOf(ch, repo, branchName) ==
  { i \in 1..Len(ch) :
      /\ ch[i].thread_ts = 0
      /\ \E k \in 1..Len(ch[i].text) :
           ch[i].text[k].tag = "Header" /\ ch[i].text[k].val[1] = repo
      /\ \E k \in 1..Len(ch[i].text) :
           ch[i].text[k].tag = "Branch" /\ ch[i].text[k].val[1] = branchName }

(* ---------------------- slack.js: slackRequest ------------------------ *)
RetryableErrors == { "rate_limited", "service_unavailable", "internal_error",
                     "request_timeout" }

\* slack.js isRetryableError: retryableErrors.includes(error), on an array
isRetryableError(error) == error \in RetryableErrors

\* a response of one makeRequest: ok, ok=false with an error value, or a
\* rejection; applied: the platform carried the request out
Response(kind, error, applied) ==
  [kind |-> kind, error |-> error, applied |-> applied]

\* the responses one attempt can get; a write the platform answers with
\* ok=false was not carried out, a rejected one may or may not have been
Responses(isWrite) ==
  { Response("ok", "", TRUE) }
  \cup { Response("api", e, FALSE) : e \in (RetryableErrors \cup
                                            { "channel_not_found", "invalid_auth", "app_rate_limited" }) }
  \cup { Response("reject", m, a) : m \in { "socket hang up", "Failed to parse Slack response" },
                                    a \in (IF isWrite THEN BOOLEAN ELSE {FALSE}) }

\* error.message.includes(needle) for the needles of the catch block: the
\* message is `Slack API error: ${error}` for a response with ok=false and
\* the rejection's own message otherwise
MessageIncludes(resp, needle) ==
  IF needle = "Slack API error:" THEN resp.kind = "api"
  ELSE /\ resp.kind = "api"
       /\ \/ resp.error = needle
          \/ resp.error = "app_rate_limited" /\ needle = "rate_limited"

\* the catch block's test for a non-retryable Slack error
\* (written before slackRequestBody, which uses it)
IsNonRetryableSlackError(resp) ==
  /\ MessageIncludes(resp, "Slack API error:")
  /\ ~ MessageIncludes(resp, "rate_limited")
  /\ ~ MessageIncludes(resp, "service_unavailable")
  /\ ~ MessageIncludes(resp, "internal_error")
  /\ ~ MessageIncludes(resp, "request_timeout")

\* one pass of the for loop of slackRequest on the response of makeRequest:
\* "return" the result, "throw" out of the loop, or go on to the "sleep"
slackRequestBody(attempt, resp) ==
  IF resp.kind = "ok" THEN "return"
  ELSE IF resp.kind = "api" /\ isRetryableError(resp.error) THEN "sleep"
  ELSE \* thrown inside try, or rejected by makeRequest: the catch block
       IF IsNonRetryableSlackError(resp) THEN "throw"
       ELSE IF attempt = MAX_RETRIES THEN "throw"
       ELSE "sleep"

\* AfterSleep with the loop test off by one
AfterSleep_oneMore(attempt) ==
  IF attempt <= MAX_RETRIES THEN "retry" ELSE "throw"

\* the loop header after the sleep: attempt++ and attempt <= MAX_RETRIES,
\* else `throw lastError`
AfterSleep(attempt) ==
  IF attempt + 1 <= MAX_RETRIES THEN "retry" ELSE "throw"

\* what the attempt's response makes of the call: "return", "throw" or
\* "retry" with another makeRequest
Outcome(attempt, resp) ==
  LET b == slackRequestBody(attempt, resp)
  IN IF b = "sleep" THEN AfterSleep(attempt) ELSE b

(* ------------------------------- state -------------------------------- *)
VARIABLES
  channel,   \* the messages stored in the Slack channel, oldest first
  clock,     \* the ts of the message stored last
  run,       \* the runs under way: position and local variables
  started,   \* number of runs started so far
  faults,    \* attempts that ended in a failure so far
  overlap,   \* a run was started while another one was under way
  raced,     \* pairs of runs whose searches both found nothing before
             \* either had posted, with their branch
  posted,    \* the runs whose postMessage has returned
  rq,        \* one slackRequest call followed attempt by attempt
  th,        \* one thread followed update by update
  gitlog,    \* one getCommitsBetweenWithMerges call, commit by commit
  filt,      \* one filterOldMergeCommits call
  rel,       \* one run of the release-note action
  hook,      \* one sendSlackNotification call
  ver,       \* one call of version.js: parseVersion or an increment
  helper     \* one call of a function without state of its own

vars == << channel, clock, run, started, faults, overlap, raced, posted,
           rq, th, gitlog, filt, rel, hook, ver, helper >>

\* the state of the staging notification and of its Slack client
staging == << channel, clock, run, started, faults, overlap, raced, posted,
             rq, th >>

\* the CI jobs that can be under way at the same time: a job that has ended
\* makes room for the next run of the action
Runs == { 1, 2 }

\* a call of slackRequest as issued by the run
Call(api, ts, thread_ts, text) ==
  [api |-> api, ts |-> ts, thread_ts |-> thread_ts, text |-> text]

IdleRun ==
  [ pc |-> "idle", id |-> 0, branchName |-> "", stagingUrl |-> "",
    jiraTickets |-> <<>>, attempt |-> 1, found |-> Msg(0, 0, <<>>),
    message_found |-> "", existing |-> [ts |-> 0, text |-> <<>>, jiraTickets |-> <<>>],
    text |-> <<>>, messageTs |-> 0, stored |-> 0, calls |-> <<>>,
    warned |-> FALSE, failed |-> FALSE ]

Active(r) == run[r].pc \notin { "idle", "done" }

\* Catch with core.setFailed in place of core.warning
Catch_setFailed(rec) ==
  [rec EXCEPT !.pc = "done", !.warned = TRUE, !.failed = TRUE]

\* the catch block of run(): core.warning and core.info, no setFailed
Catch(rec) == [rec EXCEPT !.pc = "done", !.warned = TRUE]

\* the next makeRequest of a call that goes on after its sleep
Retry(rec) == [rec EXCEPT !.attempt = @ + 1]

\* the run goes on to its next slackRequest call
Issue(rec, pc, call) ==
  [rec EXCEPT !.pc = pc, !.attempt = 1, !.calls = Append(@, call)]

\* an attempt that fails uses up one of the failures of the model
Fault(resp) ==
  /\ resp.kind # "ok" => faults < MaxFaults
  /\ faults' = IF resp.kind = "ok" THEN faults ELSE faults + 1

RqIdle == [ phase |-> "unused", timeout |-> FALSE, attempt |-> 1,
            inflight |-> 0, made |-> 0, sleeps |-> 0, log |-> <<>>,
            lastError |-> <<>>, returned |-> <<>>, thrown |-> <<>> ]

\* the other actions of the repository, not under way
Unused == [ phase |-> "unused" ]

ThIdle == [ root |-> <<>>, replies |-> <<>>, updates |-> 0,
            before |-> <<>>, newJiraTickets |-> <<>>,
            existingJiraTickets |-> <<>> ]

Init ==
  /\ channel = <<>>
  /\ clock = 0
  /\ run = [ r \in Runs |-> IdleRun ]
  /\ started = 0
  /\ faults = 0
  /\ overlap = FALSE
  /\ raced = {}
  /\ posted = {}
  /\ helper = Unused
  /\ gitlog = Unused /\ filt = Unused /\ rel = Unused
  /\ hook = Unused /\ ver = Unused
  /\ rq = RqIdle
  /\ th = ThIdle

(* ------------------------- index.js: run() ---------------------------- *)
\* run() from its entry to the search.messages call: the inputs, the
\* branch name and the Jira tickets of the commits
AfterInputs(rec, id, branch, commitMatches) ==
  Issue([rec EXCEPT !.id = id, !.branchName = branch,
                    !.stagingUrl = StagingUrlOf(id),
                    !.jiraTickets = extractJiraTickets(commitMatches)],
        "search", Call("search.messages", 0, 0, <<>>))

\* searchExistingMessage returned null: message_found is 'false' and
\* postMessage is called
AfterSearchNull(rec) ==
  LET text == postMessageText(Repo, Network, rec.branchName, Description,
                rec.stagingUrl, Author, generateJiraLinks(rec.jiraTickets))
  IN Issue([rec EXCEPT !.message_found = "false", !.text = text],
           "post", Call("chat.postMessage", 0, 0, text))

\* searchExistingMessage has a match: it fetches the thread of the match
AfterSearchMatch(rec, match) ==
  Issue([rec EXCEPT !.found = match], "thread",
        Call("conversations.replies", match.ts, 0, <<>>))

\* searchExistingMessage returns the found message with the tickets of the
\* whole thread; message_found is 'true' and updateMessage is called
AfterThread(rec, messages) ==
  LET allText == Flatten([ i \in 1..Len(messages) |-> messages[i].text ])
      existing ==
        [ ts |-> rec.found.ts,
          text |-> IF messages # <<>> /\ messages[1].text # <<>>
                   THEN messages[1].text ELSE rec.found.text,
          jiraTickets |-> extractJiraFromText(allText) ]
      updatedText == updateMessageText(existing.text, rec.stagingUrl,
                       rec.jiraTickets, existing.jiraTickets)
  IN Issue([rec EXCEPT !.message_found = "true", !.existing = existing,
                       !.text = updatedText],
           "update", Call("chat.update", existing.ts, 0, updatedText))

\* AfterUpdate with the reply posted only when a ticket was appended
AfterUpdate_onlyWithTickets(rec) ==
  LET text == postThreadReplyText(Network, Description, rec.stagingUrl,
                                  Author)
  IN IF ticketsToAdd(rec.jiraTickets, rec.existing.jiraTickets) # <<>>
     THEN Issue([rec EXCEPT !.text = text], "reply",
                Call("chat.postMessage", 0, rec.existing.ts, text))
     ELSE [rec EXCEPT !.pc = "done", !.messageTs = rec.existing.ts]

\* updateMessage returned: postThreadReply is called
AfterUpdate(rec) ==
  LET text == postThreadReplyText(Network, Description, rec.stagingUrl,
                                  Author)
  IN Issue([rec EXCEPT !.text = text], "reply",
           Call("chat.postMessage", 0, rec.existing.ts, text))

\* postThreadReply returned: message_ts is the ts of the found message
AfterReply(rec) ==
  [rec EXCEPT !.pc = "done", !.messageTs = rec.existing.ts]

\* AfterPost with the update sent for the ts of the found message, which
\* is unset on this path
AfterPost_wrongTs(rec, ts) ==
  LET updatedText == addMessageIdText(rec.text, ts)
  IN Issue([rec EXCEPT !.messageTs = ts, !.text = updatedText],
           "addId", Call("chat.update", rec.existing.ts, 0, updatedText))

\* postMessage returned the ts of the response: addMessageId is called
\* if (messageTs)
AfterPost(rec, ts) ==
  LET updatedText == addMessageIdText(rec.text, ts)
  IN IF ts # 0
     THEN Issue([rec EXCEPT !.messageTs = ts, !.text = updatedText],
                "addId", Call("chat.update", ts, 0, updatedText))
     ELSE [rec EXCEPT !.pc = "done"]

\* addMessageId returned: message_ts is set and run() ends
\* a job starts run(): a missing required input makes core.getInput throw
Start(r) ==
  \* the branch and the commit matches of a run of the action
  LET RunInputs == { << "feat/IL-101", <<>> >>,
                     << "feat/IL-101", <<"il-102", "IL-102">> >>,
                     << "feat/IL-101", <<"IL-103", "IL-101", "IL-102">> >>,
                     << "feat/IL-101-v2", <<>> >> }
  IN
  /\ ~ Active(r)
  /\ started < MaxRuns
  /\ r > 1 => Active(r - 1)
  /\ started' = started + 1
  /\ \E inputsOk \in BOOLEAN, inp \in RunInputs :
       run' = [run EXCEPT ![r] =
         IF ~ inputsOk THEN Catch([IdleRun EXCEPT !.id = started'])
         ELSE AfterInputs(IdleRun, started', inp[1], inp[2])]
  /\ overlap' = (overlap \/ \E o \in Runs \ {r} : Active(o))
  /\ UNCHANGED << channel, clock, faults, raced, posted, rq, th,
                  gitlog, filt, rel, hook, ver, helper >>

\* searchExistingMessage, first request: one attempt of search.messages
SearchAttempt(r) ==
  /\ run[r].pc = "search"
  /\ \E resp \in Responses(FALSE) :
       /\ Fault(resp)
       /\ LET o == Outcome(run[r].attempt, resp)
              matches == SearchMessages(channel, Repo, run[r].branchName)
          IN /\ run' = [run EXCEPT ![r] =
                  IF o = "retry" THEN Retry(@)
                  ELSE IF o = "throw" THEN Catch(@)
                  ELSE IF matches = <<>> THEN AfterSearchNull(@)
                  ELSE AfterSearchMatch(@, matches[1])]
             /\ raced' = IF o = "return" /\ matches = <<>>
                         THEN raced \cup
                              { [ runs |-> {run[r].id, run[q].id},
                                  branchName |-> run[r].branchName ] :
                                q \in { p \in Runs \ {r} :
                                  /\ run[p].pc = "post"
                                  /\ run[p].stored = 0
                                  /\ run[p].branchName = run[r].branchName } }
                         ELSE raced
  /\ UNCHANGED << channel, clock, started, overlap, posted, rq, th,
                  gitlog, filt, rel, hook, ver, helper >>

\* searchExistingMessage, second request: one attempt of
\* conversations.replies
ThreadAttempt(r) ==
  /\ run[r].pc = "thread"
  /\ \E resp \in Responses(FALSE) :
       /\ Fault(resp)
       /\ LET o == Outcome(run[r].attempt, resp)
              messages == ConversationsReplies(channel, run[r].found.ts)
          IN run' = [run EXCEPT ![r] =
               IF o = "retry" THEN Retry(@)
               ELSE IF o = "throw" THEN Catch(@)
               ELSE AfterThread(@, messages)]
  /\ UNCHANGED << channel, clock, started, overlap, raced, posted, rq, th,
                  gitlog, filt, rel, hook, ver, helper >>

\* updateMessage: one attempt of chat.update on the found message
UpdateAttempt(r) ==
  /\ run[r].pc = "update"
  /\ \E resp \in Responses(TRUE) :
       /\ Fault(resp)
       /\ LET o == Outcome(run[r].attempt, resp)
          IN /\ channel' = IF resp.applied
                           THEN ChatUpdate(channel, run[r].existing.ts,
                                           run[r].text)
                           ELSE channel
             /\ run' = [run EXCEPT ![r] =
                  IF o = "retry" THEN Retry(@)
                  ELSE IF o = "throw" THEN Catch(@)
                  ELSE AfterUpdate(@)]
  /\ UNCHANGED << clock, started, overlap, raced, posted, rq, th,
                  gitlog, filt, rel, hook, ver, helper >>

\* postThreadReply: one attempt of chat.postMessage with thread_ts
ReplyAttempt(r) ==
  /\ run[r].pc = "reply"
  /\ \E resp \in Responses(TRUE) :
       /\ Fault(resp)
       /\ LET o == Outcome(run[r].attempt, resp)
              stored == IF resp.applied THEN 1 ELSE 0
          IN /\ channel' = IF resp.applied
                           THEN ChatPostMessage(channel, clock + 1,
                                  run[r].existing.ts, run[r].text)
                           ELSE channel
             /\ clock' = clock + stored
             /\ run' = [run EXCEPT ![r] =
                  LET rec == [@ EXCEPT !.stored = @ + stored]
                  IN IF o = "retry" THEN Retry(rec)
                     ELSE IF o = "throw" THEN Catch(rec)
                     ELSE AfterReply(rec)]
  /\ UNCHANGED << started, overlap, raced, posted, rq, th,
                  gitlog, filt, rel, hook, ver, helper >>

\* postMessage: one attempt of chat.postMessage without thread_ts; the
\* response of the attempt that succeeds carries the ts of its message
PostAttempt(r) ==
  /\ run[r].pc = "post"
  /\ \E resp \in Responses(TRUE) :
       /\ Fault(resp)
       /\ LET o == Outcome(run[r].attempt, resp)
              stored == IF resp.applied THEN 1 ELSE 0
          IN /\ channel' = IF resp.applied
                           THEN ChatPostMessage(channel, clock + 1, 0,
                                                run[r].text)
                           ELSE channel
             /\ clock' = clock + stored
             /\ run' = [run EXCEPT ![r] =
                  LET rec == [@ EXCEPT !.stored = @ + stored]
                  IN IF o = "retry" THEN Retry(rec)
                     ELSE IF o = "throw" THEN Catch(rec)
                     ELSE AfterPost(rec, clock + 1)]
             /\ posted' = IF o = "return" THEN posted \cup {run[r].id}
                          ELSE posted
  /\ UNCHANGED << started, overlap, raced, rq, th,
                  gitlog, filt, rel, hook, ver, helper >>

\* addMessageId: one attempt of chat.update on the new root
AddIdAttempt(r) ==
  /\ run[r].pc = "addId"
  /\ \E resp \in Responses(TRUE) :
       /\ Fault(resp)
       /\ LET o == Outcome(run[r].attempt, resp)
          IN /\ channel' = IF resp.applied
                           THEN ChatUpdate(channel, run[r].messageTs,
                                           run[r].text)
                           ELSE channel
             /\ run' = [run EXCEPT ![r] =
                  IF o = "retry" THEN Retry(@)
                  ELSE IF o = "throw" THEN Catch(@)
                  ELSE [@ EXCEPT !.pc = "done"]]
  /\ UNCHANGED << clock, started, overlap, raced, posted, rq, th,
                  gitlog, filt, rel, hook, ver, helper >>

Next ==
  \/ \E r \in Runs : Start(r)
  \/ \E r \in Runs : SearchAttempt(r)
  \/ \E r \in Runs : ThreadAttempt(r)
  \/ \E r \in Runs : UpdateAttempt(r)
  \/ \E r \in Runs : ReplyAttempt(r)
  \/ \E r \in Runs : PostAttempt(r)
  \/ \E r \in Runs : AddIdAttempt(r)

Spec == Init /\ [][Next]_vars

(* --------------- slackRequest, one call step by step ------------------ *)
\* the repository has makeRequest twice: with req.setTimeout
\* (REQUEST_TIMEOUT_MS) and without it; rq.timeout tells which one the call
\* uses
InitReq ==
  /\ channel = <<>>
  /\ clock = 0
  /\ run = [ r \in Runs |-> IdleRun ]
  /\ started = 0
  /\ faults = 0
  /\ overlap = FALSE
  /\ raced = {}
  /\ posted = {}
  /\ helper = Unused
  /\ gitlog = Unused /\ filt = Unused /\ rel = Unused
  /\ hook = Unused /\ ver = Unused
  /\ \E t \in BOOLEAN : rq = [RqIdle EXCEPT !.phase = "ready", !.timeout = t]
  /\ th = ThIdle

\* makeRequest is called: https.request, req.end
ReqSend ==
  /\ rq.phase = "ready"
  /\ rq' = [rq EXCEPT !.phase = "waiting", !.inflight = @ + 1,
                      !.made = @ + 1]
  /\ UNCHANGED << channel, clock, run, started, faults, overlap, raced,
                  posted, th,
                  gitlog, filt, rel, hook, ver, helper >>

\* the promise of makeRequest settles with resp and the loop body runs on
\* it
ReqSettle(rec0, resp) ==
  LET b == slackRequestBody(rec0.attempt, resp)
      rec == [rec0 EXCEPT !.inflight = @ - 1, !.log = Append(@, resp)]
  IN IF b = "return"
     THEN [rec EXCEPT !.phase = "returned", !.returned = <<resp>>]
     ELSE IF b = "throw"
     THEN [rec EXCEPT !.phase = "thrown", !.thrown = <<resp>>]
     ELSE [rec EXCEPT !.phase = "sleeping", !.lastError = <<resp>>]

\* the remote side answers, or the connection fails: res.on('end'),
\* req.on('error'); nothing makes the remote side answer
ReqRespond ==
  /\ rq.phase = "waiting"
  /\ \E resp \in Responses(TRUE) : rq' = ReqSettle(rq, resp)
  /\ UNCHANGED << channel, clock, run, started, faults, overlap, raced,
                  posted, th,
                  gitlog, filt, rel, hook, ver, helper >>

\* the timer of req.setTimeout fires before an answer has come:
\* req.destroy() and reject(new Error('Request timeout')); only the
\* makeRequest that sets the timer has this step
ReqTimeout ==
  /\ rq.phase = "waiting"
  /\ rq.timeout
  /\ \E a \in BOOLEAN :
       rq' = ReqSettle(rq, Response("reject", "Request timeout", a))
  /\ UNCHANGED << channel, clock, run, started, faults, overlap, raced,
                  posted, th,
                  gitlog, filt, rel, hook, ver, helper >>

\* await sleep(RETRY_DELAY_MS) ends; attempt++ and the loop test
ReqWake ==
  /\ rq.phase = "sleeping"
  /\ rq' = IF AfterSleep(rq.attempt) = "retry"
           THEN [rq EXCEPT !.phase = "ready", !.sleeps = @ + 1,
                           !.attempt = @ + 1]
           ELSE [rq EXCEPT !.phase = "thrown", !.sleeps = @ + 1,
                           !.attempt = @ + 1, !.thrown = rq.lastError]
  /\ UNCHANGED << channel, clock, run, started, faults, overlap, raced,
                  posted, th,
                  gitlog, filt, rel, hook, ver, helper >>

NextReq == ReqSend \/ ReqRespond \/ ReqTimeout \/ ReqWake

SpecReq == InitReq /\ [][NextReq]_vars

\* the event loop runs what is ready and timers fire: the call sends its
\* request, wakes from its sleep and gets its timeout; the remote side is
\* under no obligation to answer
SpecReqLive ==
  /\ InitReq /\ [][NextReq]_vars
  /\ WF_vars(ReqSend) /\ WF_vars(ReqWake) /\ WF_vars(ReqTimeout)

(* -------------- updateMessage, one thread update by update ------------ *)
\* a thread as a first run leaves it: the root of postMessage, with the
\* Message ID line when addMessageId went through, and no reply of the
\* action yet
InitUpdate ==
  /\ channel = <<>>
  /\ clock = 0
  /\ run = [ r \in Runs |-> IdleRun ]
  /\ started = 0
  /\ faults = 0
  /\ overlap = FALSE
  /\ raced = {}
  /\ posted = {}
  /\ helper = Unused
  /\ gitlog = Unused /\ filt = Unused /\ rel = Unused
  /\ hook = Unused /\ ver = Unused
  /\ rq = RqIdle
  /\ \E branch \in Branches, cm \in CommitMatches, withId \in BOOLEAN,
        comments \in { <<>>, << << Line("comment", <<"il-103">>, 0) >> >> } :
       LET text == postMessageText(Repo, Network, branch, Description,
                     StagingUrlOf(0), Author,
                     generateJiraLinks(extractJiraTickets(cm)))
       IN th = [ThIdle EXCEPT !.root = IF withId
                                       THEN addMessageIdText(text, 1)
                                       ELSE text,
                              !.replies = comments]

\* a later run finds the thread: the tickets of the whole thread are
\* extracted (searchExistingMessage), the root is updated (updateMessage)
\* and a reply is posted (postThreadReply)
UpdateThread ==
  /\ th.updates < MaxUpdates
  /\ \E cm \in CommitMatches :
       LET stagingUrl == StagingUrlOf(th.updates + 1)
           allText == th.root \o Flatten(th.replies)
           existing == extractJiraFromText(allText)
           new == extractJiraTickets(cm)
       IN th' = [ root |-> updateMessageText(th.root, stagingUrl, new,
                                             existing),
                  replies |-> Append(th.replies,
                                postThreadReplyText(Network, Description,
                                                    stagingUrl, Author)),
                  updates |-> th.updates + 1,
                  before |-> th.root,
                  newJiraTickets |-> new,
                  existingJiraTickets |-> existing ]
  /\ UNCHANGED << channel, clock, run, started, faults, overlap, raced,
                  posted, rq,
                  gitlog, filt, rel, hook, ver, helper >>

SpecUpdate == InitUpdate /\ [][UpdateThread]_vars

(* ------------- shared/src/git.js: getCommitsBetweenWithMerges --------- *)
\* number of commits of the first-parent history between the two refs
MaxFirstParent == 2

\* a commit of the repository; subject: the pieces of its subject line
\* between the '|' characters it contains
Commit(hash, timestamp, subject, authorName, authorEmail) ==
  [ hash |-> hash, timestamp |-> timestamp, subject |-> subject,
    authorName |-> authorName, authorEmail |-> authorEmail ]

\* the commit of fromRef (the previous tag) has timestamp 2
RepoCommits ==
  { Commit("a", 1, << "fix: bug" >>, "ann", "ann@x.io"),
    Commit("b", 2, << "fix: bug" >>, "bob", "bob@x.io"),
    Commit("c", 3, << "feat: a", "b" >>, "cy", "cy@x.io"),
    Commit("m", 3, << "Merge pull request #8 from org/feat/x" >>,
           "ann", "ann@x.io"),
    Commit("n", 4, << "Merge pull request #7 from org/dev" >>,
           "bob", "bob@x.io"),
    Commit("o", 1, << "Merge pull request #5 from org/feat/y" >>,
           "cy", "cy@x.io"),
    Commit("p", 4, << "merge pull request #4 from org/feat/z" >>,
           "ann", "ann@x.io"),
    Commit("q", 4, << "Merge pull request template" >>,
           "bob", "bob@x.io") }

CommitOf(hash) == CHOOSE c \in RepoCommits : c.hash = hash

\* String.prototype.startsWith('Merge pull request'), case-sensitive
StartsWithMergePullRequest(s) ==
  s \in { "Merge pull request #8 from org/feat/x",
          "Merge pull request #7 from org/dev",
          "Merge pull request #5 from org/feat/y",
          "Merge pull request #6 from org/dev",
          "Merge pull request template" }

\* formatting.js isPRMergeCommit:
\* /^Merge pull request #\d+ from /i.test(commit.message), the subject
\* being the first piece of the message
isPRMergeCommit(commit) ==
  commit.message[1] \in { "Merge pull request #8 from org/feat/x",
                          "Merge pull request #7 from org/dev",
                          "Merge pull request #5 from org/feat/y",
                          "Merge pull request #6 from org/dev",
                          "merge pull request #4 from org/feat/z" }

\* the decimal digits of a commit timestamp (%ct) and parseInt on them
TimestampDigits(t) ==
  IF t = 1 THEN "1" ELSE IF t = 2 THEN "2" ELSE IF t = 3 THEN "3" ELSE "4"
parseIntTimestamp(d) ==
  IF d = "1" THEN 1 ELSE IF d = "2" THEN 2 ELSE IF d = "3" THEN 3 ELSE 4

\* a commit as git.log of simple-git returns it (getCommitsBetween): the
\* message is the whole subject
LogCommit(c) ==
  [ hash |-> c.hash, timestamp |-> parseIntTimestamp(TimestampDigits(c.timestamp)),
    message |-> c.subject, authorName |-> c.authorName,
    authorEmail |-> c.authorEmail ]

\* one line of --pretty=format:%H|%ct|%s|%an|%ae after line.split('|')
RawLine(c) ==
  << c.hash, TimestampDigits(c.timestamp) >> \o c.subject
     \o << c.authorName, c.authorEmail >>

\* const [hash, timestamp, message, authorName, authorEmail] = pieces
LineCommit(pieces) ==
  [ hash |-> pieces[1], timestamp |-> parseIntTimestamp(pieces[2]),
    message |-> << pieces[3] >>, authorName |-> pieces[4],
    authorEmail |-> pieces[5] ]

\* PushIfNew with the commits at the timestamp of fromRef let through
PushIfNew_atFromRef(acc, commit, fromRefTimestamp) ==
  IF commit.hash \notin acc.seenHashes
     /\ commit.timestamp >= fromRefTimestamp
  THEN [ allCommits |-> Append(acc.allCommits, commit),
         seenHashes |-> acc.seenHashes \cup { commit.hash } ]
  ELSE acc

\* PushIfNew without the test on seenHashes
PushIfNew_seenAgain(acc, commit, fromRefTimestamp) ==
  IF commit.timestamp > fromRefTimestamp
  THEN [ allCommits |-> Append(acc.allCommits, commit),
         seenHashes |-> acc.seenHashes \cup { commit.hash } ]
  ELSE acc

\* the commit is pushed unless its hash was seen or it is not after fromRef
PushIfNew(acc, commit, fromRefTimestamp) ==
  IF commit.hash \notin acc.seenHashes
     /\ commit.timestamp > fromRefTimestamp
  THEN [ allCommits |-> Append(acc.allCommits, commit),
         seenHashes |-> acc.seenHashes \cup { commit.hash } ]
  ELSE acc

RECURSIVE PushLines(_, _, _)
\* the inner loop over the lines of the merged commits
PushLines(acc, hashes, fromRefTimestamp) ==
  IF hashes = << >> THEN acc
  ELSE PushLines(PushIfNew(acc, LineCommit(RawLine(CommitOf(Head(hashes)))),
                           fromRefTimestamp),
                 Tail(hashes), fromRefTimestamp)

\* one pass of the outer loop: the first-parent commit, then, for a
\* 'Merge pull request' commit, the commits it merged (an error of git.raw
\* is ignored)
VisitOne(acc, commit, merged, fromRefTimestamp) ==
  LET own == PushIfNew(acc, commit, fromRefTimestamp)
  IN IF StartsWithMergePullRequest(commit.message[1])
        /\ merged # << "throw" >>
     THEN PushLines(own, merged, fromRefTimestamp)
     ELSE own

\* the sequences over S of length at most n
SeqsUpTo(S, n) == UNION { [ 1..k -> S ] : k \in 0..n }

\* the commits whose range ^1..^2 git can list; "p" is a merge commit as
\* well, one the loop never asks about; "q" has one parent only
MergeHashes == { "m", "n", "o" }

\* the call getCommitsBetweenWithMerges(git, fromRef, toRef) on a
\* repository: whether getCommitDate(fromRef) works, the first-parent
\* history fromRef..toRef (newest first) and the merged commits of each
\* merge commit
InitGit ==
  /\ channel = <<>>
  /\ clock = 0
  /\ run = [ r \in Runs |-> IdleRun ]
  /\ started = 0
  /\ faults = 0
  /\ overlap = FALSE
  /\ raced = {}
  /\ posted = {}
  /\ helper = Unused
  /\ rq = RqIdle
  /\ th = ThIdle
  /\ filt = Unused /\ rel = Unused /\ hook = Unused /\ ver = Unused
  /\ \E dateOk \in BOOLEAN,
        firstParent \in SeqsUpTo({ c.hash : c \in RepoCommits },
                                 MaxFirstParent),
        merged \in [ MergeHashes -> { << "throw" >>, << >>, << "c", "b", "a" >>, << "c", "m" >> } ] :
       gitlog = [ phase |-> "date", dateOk |-> dateOk,
                  firstParent |-> firstParent, merged |-> merged,
                  fromRefTimestamp |-> 0, mergeCommits |-> << >>, i |-> 1,
                  acc |-> [ allCommits |-> << >>, seenHashes |-> {} ],
                  raw |-> << >>, out |-> << >> ]

\* const fromRefTimestamp = await getCommitDate(git, fromRef): an error
\* goes to the catch block, which returns []
GetCommitDate ==
  /\ gitlog.phase = "date"
  /\ gitlog' = IF gitlog.dateOk
               THEN [gitlog EXCEPT !.phase = "log",
                                   !.fromRefTimestamp = CommitOf("b").timestamp]
               ELSE [gitlog EXCEPT !.phase = "returned", !.out = << >>]
  /\ UNCHANGED << staging, filt, rel, hook, ver, helper >>

\* const mergeCommits = await getCommitsBetween(..., { firstParent: true })
\* and the early return on an empty list
GetFirstParent ==
  /\ gitlog.phase = "log"
  /\ LET mergeCommits ==
           [ k \in 1..Len(gitlog.firstParent) |->
               LogCommit(CommitOf(gitlog.firstParent[k])) ]
     IN gitlog' = IF mergeCommits = << >>
                  THEN [gitlog EXCEPT !.phase = "returned", !.out = << >>]
                  ELSE [gitlog EXCEPT !.phase = "loop",
                                      !.mergeCommits = mergeCommits]
  /\ UNCHANGED << staging, filt, rel, hook, ver, helper >>

\* one pass of `for (const commit of mergeCommits)`
VisitCommit ==
  /\ gitlog.phase = "loop"
  /\ gitlog.i <= Len(gitlog.mergeCommits)
  /\ LET commit == gitlog.mergeCommits[gitlog.i]
         merged == IF commit.hash \in MergeHashes
                   THEN gitlog.merged[commit.hash] ELSE << "throw" >>
     IN gitlog' = [gitlog EXCEPT
                     !.acc = VisitOne(@, commit, merged,
                                      gitlog.fromRefTimestamp),
                     !.raw = IF StartsWithMergePullRequest(commit.message[1])
                             THEN Append(@, commit.hash) ELSE @,
                     !.i = @ + 1]
  /\ UNCHANGED << staging, filt, rel, hook, ver, helper >>

\* return allCommits
ReturnCommits ==
  /\ gitlog.phase = "loop"
  /\ gitlog.i > Len(gitlog.mergeCommits)
  /\ gitlog' = [gitlog EXCEPT !.phase = "returned",
                              !.out = gitlog.acc.allCommits]
  /\ UNCHANGED << staging, filt, rel, hook, ver, helper >>

SpecGit ==
  /\ InitGit
  /\ [][GetCommitDate \/ GetFirstParent \/ VisitCommit \/ ReturnCommits]_vars

(* ------------- shared/src/formatting.js: filterOldMergeCommits --------- *)
\* length of the longest commit list given to filterOldMergeCommits
MaxCommits == 3

\* /^Merge pull request #\d+ from [^/]+\/dev$/i.test(commit.message): the
\* test ignores case, ends at 'dev' and allows no '/' before '/dev'; a
\* commit with an empty message is no dev merge
isDevToMasterMerge(commit) ==
  IF commit.message = "" THEN FALSE
  ELSE commit.message \in { "Merge pull request #7 from org/dev",
                            "merge pull request #6 from Org/dev" }

\* the callback of filter with every commit kept
KeepCommit_all(commit, foundFirstDevMerge) == TRUE

\* the callback of commits.filter: whether the commit is kept
KeepCommit(commit, foundFirstDevMerge) ==
  IF ~ isDevToMasterMerge(commit) THEN TRUE
  ELSE IF ~ foundFirstDevMerge THEN TRUE
  ELSE FALSE

\* commits.filter(...) from the left, foundFirstDevMerge set by the first
\* dev merge
RECURSIVE FilterFrom(_, _)
FilterFrom(commits, foundFirstDevMerge) ==
  IF commits = << >> THEN << >>
  ELSE LET commit == Head(commits)
           rest == FilterFrom(Tail(commits),
                              foundFirstDevMerge \/ isDevToMasterMerge(commit))
       IN IF KeepCommit(commit, foundFirstDevMerge)
          THEN << commit >> \o rest ELSE rest

filterOldMergeCommits(commits) ==
  IF commits.null THEN << >>
  ELSE IF Len(commits.list) = 0 THEN << >>
  ELSE FilterFrom(commits.list, FALSE)

InitFilter ==
  \* the lists of at most MaxCommits commits; the hash of a commit is its
  \* place in the list
  LET CommitLists ==
        \* the commit messages of the lists
        LET Messages ==
              { "Merge pull request #7 from org/dev",
                "merge pull request #6 from Org/dev",
                "Merge pull request #9 from org/dev-tools",
                "Merge pull request #4 from org/team/dev",
                "Merge pull request #8 from org/feat/x",
                "Merge branch 'dev' into master",
                "feat: a",
                "" }
        IN
        { [ null |-> FALSE,
            list |-> [ k \in 1..Len(ms) |-> [ hash |-> k, message |-> ms[k] ] ] ] :
            ms \in SeqsUpTo(Messages, MaxCommits) }
  IN
  /\ channel = <<>>
  /\ clock = 0
  /\ run = [ r \in Runs |-> IdleRun ]
  /\ started = 0
  /\ faults = 0
  /\ overlap = FALSE
  /\ raced = {}
  /\ posted = {}
  /\ helper = Unused
  /\ rq = RqIdle
  /\ th = ThIdle
  /\ gitlog = Unused /\ rel = Unused /\ hook = Unused /\ ver = Unused
  /\ \E commits \in CommitLists \cup { [ null |-> TRUE, list |-> << >> ] } :
       filt = [ phase |-> "called", commits |-> commits, out |-> << >> ]

FilterOldMergeCommits ==
  /\ filt.phase = "called"
  /\ filt' = [filt EXCEPT !.phase = "returned",
                          !.out = filterOldMergeCommits(filt.commits)]
  /\ UNCHANGED << staging, gitlog, rel, hook, ver, helper >>

SpecFilter == InitFilter /\ [][FilterOldMergeCommits]_vars

(* ------------------ shared/src/version.js: parseVersion ---------------- *)
\* A version string is the sequence of its characters.
\* length of the longest tag given to parseVersion
MaxTagLen == 6

Digits == << "0", "1", "2", "3", "4", "5", "6", "7", "8", "9" >>

IsDigit(ch) == \E k \in 1..Len(Digits) : Digits[k] = ch

\* String.prototype.split('.'): the pieces between the dots, one piece for
\* a string without a dot
RECURSIVE Split(_)
Split(s) ==
  IF s = << >> THEN << << >> >>
  ELSE LET init == Split(SubSeq(s, 1, Len(s) - 1))
           last == s[Len(s)]
       IN IF last = "." THEN Append(init, << >>)
          ELSE [init EXCEPT ![Len(init)] = Append(@, last)]

\* the longest run of digits at the start of s
RECURSIVE LeadingDigits(_)
LeadingDigits(s) ==
  IF s = << >> \/ ~ IsDigit(Head(s)) THEN << >>
  ELSE << Head(s) >> \o LeadingDigits(Tail(s))

\* the number written by a run of digits
RECURSIVE DigitsValue(_)
DigitsValue(d) ==
  LET DigitValue(ch) == (CHOOSE k \in 1..Len(Digits) : Digits[k] = ch) - 1
  IN
  IF d = << >> THEN 0
  ELSE 10 * DigitsValue(SubSeq(d, 1, Len(d) - 1)) + DigitValue(d[Len(d)])

\* leading white space is skipped by parseInt
RECURSIVE SkipSpaces(_)
SkipSpaces(s) ==
  IF s # << >> /\ Head(s) = " " THEN SkipSpaces(Tail(s)) ELSE s

\* parseInt(s, 10): white space, an optional sign, then the digits up to
\* the first character that is no digit; NaN when there is no digit
parseInt(s) ==
  LET t == SkipSpaces(s)
      signed == t # << >> /\ Head(t) \in { "-", "+" }
      d == LeadingDigits(IF signed THEN Tail(t) ELSE t)
  IN IF d = << >> THEN [ nan |-> TRUE, value |-> 0 ]
     ELSE [ nan |-> FALSE,
            value |-> IF signed /\ Head(t) = "-" THEN 0 - DigitsValue(d)
                      ELSE DigitsValue(d) ]

Thrown(message) == [ ok |-> FALSE, error |-> message ]

\* parseVersion: the Version, or the error thrown
parseVersion(version) ==
  IF version = << >> THEN Thrown("Version string is required")
  ELSE
    LET hasPrefix == Head(version) = "v"
        versionWithoutPrefix == IF hasPrefix THEN Tail(version) ELSE version
        parts == Split(versionWithoutPrefix)
    IN IF Len(parts) # 3
       THEN Thrown("Invalid version format: Expected format: v1.2.3 or 1.2.3")
       ELSE
         LET major == parseInt(parts[1])
             minor == parseInt(parts[2])
             patch == parseInt(parts[3])
         IN IF major.nan \/ minor.nan \/ patch.nan
            THEN Thrown("Invalid version format: Version components must be numbers")
            ELSE IF major.value < 0 \/ minor.value < 0 \/ patch.value < 0
            THEN Thrown("Invalid version format: Version components must be non-negative")
            ELSE [ ok |-> TRUE, major |-> major.value, minor |-> minor.value,
                   patch |-> patch.value,
                   prefix |-> IF hasPrefix THEN "v" ELSE "" ]

\* a number of the template literal: its decimal digits
RECURSIVE NumberDigits(_)
NumberDigits(n) ==
  IF n < 10 THEN << Digits[n + 1] >>
  ELSE NumberDigits(n \div 10) \o << Digits[(n % 10) + 1] >>

\* `v${major}.${minor}.${patch + 1}`, or the error of parseVersion
incrementPatch(version) ==
  LET p == parseVersion(version)
  IN IF ~ p.ok THEN p
     ELSE [ ok |-> TRUE,
            version |-> << "v" >> \o NumberDigits(p.major) \o << "." >>
                        \o NumberDigits(p.minor) \o << "." >>
                        \o NumberDigits(p.patch + 1) ]

InitVersion ==
  /\ channel = <<>>
  /\ clock = 0
  /\ run = [ r \in Runs |-> IdleRun ]
  /\ started = 0
  /\ faults = 0
  /\ overlap = FALSE
  /\ raced = {}
  /\ posted = {}
  /\ helper = Unused
  /\ rq = RqIdle
  /\ th = ThIdle
  /\ gitlog = Unused /\ filt = Unused /\ rel = Unused /\ hook = Unused
  /\ \E tag \in SeqsUpTo({ "v", "1", ".", "-", "a" }, MaxTagLen) :
       ver = [ phase |-> "called", tag |-> tag, result |-> Thrown("") ]

\* parseVersion(tag) returns a Version or throws
ParseVersion ==
  /\ ver.phase = "called"
  /\ LET result == parseVersion(ver.tag)
     IN ver' = [ver EXCEPT !.phase = IF result.ok THEN "returned" ELSE "thrown",
                           !.result = result]
  /\ UNCHANGED << staging, gitlog, filt, rel, hook, helper >>

SpecVersion == InitVersion /\ [][ParseVersion]_vars

(* ------------------- release-note: run, generateReleaseNotes ----------- *)
\* getCommitsBetweenWithMerges seen from its caller: [] when the commit
\* date or the range cannot be read, else the commits found
CommitsBetweenWithMerges(dateOk, rangeOk, found) ==
  IF ~ dateOk THEN << >>
  ELSE IF ~ rangeOk THEN << >>
  ELSE found

\* a line of the notes, as its pieces: a list item with the commit link
\* and the message
formatCommitLine(commit, repoUrl) ==
  << "- ", "[", commit.hash, "](", repoUrl, "/commit/", commit.hash, ")",
     " - ", commit.message >>

\* the notes as the sequence of their lines
NoNewCommits == << << "No new commits" >> >>

formatReleaseNotes(commits, repoUrl) ==
  IF Len(commits) = 0 THEN NoNewCommits
  ELSE LET filteredCommits ==
             filterOldMergeCommits([ null |-> FALSE, list |-> commits ])
       IN IF Len(filteredCommits) = 0 THEN NoNewCommits
          ELSE [ k \in 1..Len(filteredCommits) |->
                   formatCommitLine(filteredCommits[k], repoUrl) ]

\* computeBugsnagVersion giving the new version whatever the commits
computeBugsnagVersion_newVersion(newVersion, previousTag, hasNewCommits) == newVersion

computeBugsnagVersion(newVersion, previousTag, hasNewCommits) ==
  IF hasNewCommits THEN newVersion ELSE previousTag

\* core.setFailed in the catch block of run
RelFailed(r, message) ==
  [r EXCEPT !.phase = "done", !.failed = TRUE, !.error = message]

InitRelease ==
  LET RelIdle ==
        [ phase |-> "start", previousTag |-> << >>, repoUrl |-> "",
          tagExists |-> FALSE, dateOk |-> FALSE, rangeOk |-> FALSE,
          found |-> << >>, commits |-> << >>, releaseNotes |-> << >>,
          newVersion |-> << >>, outputs |-> {}, failed |-> FALSE, error |-> "" ]
  IN
  \* the commit lists getCommitsBetweenWithMerges can find
  LET RelCommitLists ==
        { [ k \in 1..Len(ms) |-> [ hash |-> k, message |-> ms[k] ] ] :
            ms \in SeqsUpTo({ "Merge pull request #7 from org/dev", "feat: a" },
                            MaxCommits) }
  IN
  \* the values of the input previous_tag; the empty one: input not supplied
  LET RelTags ==
        { << >>,
          << "v", "1", ".", "1", "7", ".", "1", "2" >>,
          << "1", ".", "1", "7", ".", "1", "2" >>,
          << "v", "1", ".", "2", ".", "9" >>,
          << "v", "1", ".", "2" >>,
          << "v", "1", ".", "2", ".", "x" >>,
          << "v", "1", ".", "2", ".", "3", "-", "r", "c" >> }
  IN
  /\ channel = <<>>
  /\ clock = 0
  /\ run = [ r \in Runs |-> IdleRun ]
  /\ started = 0
  /\ faults = 0
  /\ overlap = FALSE
  /\ raced = {}
  /\ posted = {}
  /\ helper = Unused
  /\ rq = RqIdle
  /\ th = ThIdle
  /\ gitlog = Unused /\ filt = Unused /\ hook = Unused /\ ver = Unused
  /\ \E previousTag \in RelTags, repoUrl \in { "", "https://github.com/org/repo" },
        tagExists \in BOOLEAN, dateOk \in BOOLEAN, rangeOk \in BOOLEAN,
        found \in RelCommitLists :
       rel = [RelIdle EXCEPT !.previousTag = previousTag,
                             !.repoUrl = repoUrl,
                             !.tagExists = tagExists, !.dateOk = dateOk,
                             !.rangeOk = rangeOk, !.found = found]

\* core.getInput(..., { required: true }) throws for an input not supplied
RelGetInputs ==
  /\ rel.phase = "start"
  /\ rel' = IF rel.previousTag = << >>
            THEN RelFailed(rel, "Input required and not supplied: previous_tag")
            ELSE IF rel.repoUrl = ""
            THEN RelFailed(rel, "Input required and not supplied: repo_url")
            ELSE [rel EXCEPT !.phase = "refExists"]
  /\ UNCHANGED << staging, gitlog, filt, hook, ver, helper >>

\* generateReleaseNotes: the tag must exist
RelRefExists ==
  /\ rel.phase = "refExists"
  /\ rel' = IF ~ rel.tagExists
            THEN RelFailed(rel, "Tag does not exist")
            ELSE [rel EXCEPT !.phase = "commits"]
  /\ UNCHANGED << staging, gitlog, filt, hook, ver, helper >>

\* const commits = await getCommitsBetweenWithMerges(git, previousTag, branch)
RelGetCommits ==
  /\ rel.phase = "commits"
  /\ rel' = [rel EXCEPT !.phase = "format",
                        !.commits = CommitsBetweenWithMerges(rel.dateOk,
                                      rel.rangeOk, rel.found)]
  /\ UNCHANGED << staging, gitlog, filt, hook, ver, helper >>

\* formatReleaseNotes, then incrementPatch, which throws for a tag that
\* parseVersion rejects
RelFormat ==
  /\ rel.phase = "format"
  /\ LET newVersion == incrementPatch(rel.previousTag)
     IN rel' = IF ~ newVersion.ok THEN RelFailed(rel, newVersion.error)
               ELSE [rel EXCEPT !.phase = "outputs",
                                !.releaseNotes =
                                   formatReleaseNotes(rel.commits, rel.repoUrl),
                                !.newVersion = newVersion.version]
  /\ UNCHANGED << staging, gitlog, filt, hook, ver, helper >>

\* the three core.setOutput calls of run
RelSetOutputs ==
  /\ rel.phase = "outputs"
  /\ LET hasNewCommits == Len(rel.commits) > 0
         bugsnagVersion == computeBugsnagVersion(rel.newVersion,
                             rel.previousTag, hasNewCommits)
     IN rel' = [rel EXCEPT
                  !.phase = "done",
                  !.outputs = { << "new_version", rel.newVersion >>,
                                << "release_notes", rel.releaseNotes >>,
                                << "bugsnag_version", bugsnagVersion >> }]
  /\ UNCHANGED << staging, gitlog, filt, hook, ver, helper >>

SpecRelease ==
  /\ InitRelease
  /\ [][RelGetInputs \/ RelRefExists \/ RelGetCommits \/ RelFormat
         \/ RelSetOutputs]_vars

(* ------- prod-deployment-notification/src/slack.js: webhook ----------- *)
\* A webhook URL is given by its pieces as written: scheme://userinfo@host:port/path
WebhookUrl(scheme, userinfo, host, port, path) ==
  [ scheme |-> scheme, userinfo |-> userinfo, host |-> host, port |-> port,
    path |-> path ]

\* the URL parser turns scheme and host to lower case
toLowerCase(s) ==
  IF s = "HTTPS" THEN "https"
  ELSE IF s = "HOOKS.SLACK.COM" THEN "hooks.slack.com"
  ELSE s

\* new URL(url): throws without a scheme, without a host or with a port
\* above 65535; protocol and hostname of the parsed URL otherwise (the
\* hostname has neither the userinfo nor the port)
ParseUrl(url) ==
  IF url.scheme = "" \/ url.host = "" \/ url.port = "99999"
  THEN [ ok |-> FALSE, protocol |-> "", hostname |-> "" ]
  ELSE [ ok |-> TRUE, protocol |-> toLowerCase(url.scheme),
         hostname |-> toLowerCase(url.host) ]

\* isValidSlackWebhookUrl with the test of the protocol left out
isValidSlackWebhookUrl_anyProtocol(url) ==
  LET parsed == ParseUrl(url)
  IN IF ~ parsed.ok THEN FALSE
     ELSE parsed.hostname = "hooks.slack.com"

isValidSlackWebhookUrl(url) ==
  LET parsed == ParseUrl(url)
  IN IF ~ parsed.ok THEN FALSE
     ELSE parsed.protocol = "https" /\ parsed.hostname = "hooks.slack.com"

InitHook ==
  \* the URLs given to sendSlackNotification; a URL without scheme is a bare
  \* word or the empty string
  LET WebhookUrls ==
        { WebhookUrl(s, u, h, p, "/services/T0/B0/x") :
            s \in { "https", "HTTPS", "http", "ftp", "" },
            u \in { "", "hooks.slack.com" },
            h \in { "hooks.slack.com", "HOOKS.SLACK.COM", "hooks.slack.com.",
                    "hooks.slack.com.evil.io", "evil.io", "" },
            p \in { "", "8443", "99999" } }
  IN
  /\ channel = <<>>
  /\ clock = 0
  /\ run = [ r \in Runs |-> IdleRun ]
  /\ started = 0
  /\ faults = 0
  /\ overlap = FALSE
  /\ raced = {}
  /\ posted = {}
  /\ helper = Unused
  /\ rq = RqIdle
  /\ th = ThIdle
  /\ gitlog = Unused /\ filt = Unused /\ rel = Unused /\ ver = Unused
  /\ \E url \in WebhookUrls :
       hook = [ phase |-> "called", url |-> url, requests |-> << >>,
                error |-> "" ]

\* sendSlackNotification up to the fetch: an invalid URL throws before it
SendSlackNotification ==
  /\ hook.phase = "called"
  /\ hook' = IF ~ isValidSlackWebhookUrl(hook.url)
             THEN [hook EXCEPT !.phase = "thrown",
                               !.error = "Invalid Slack webhook URL"]
             ELSE [hook EXCEPT !.phase = "fetching",
                               !.requests = Append(@, hook.url)]
  /\ UNCHANGED << staging, gitlog, filt, rel, ver, helper >>

\* the fetch settles: a response that is not ok throws, a rejection too
FetchSettles ==
  /\ hook.phase = "fetching"
  /\ \E result \in { "ok", "not ok", "rejected" } :
       hook' = IF result = "ok" THEN [hook EXCEPT !.phase = "returned"]
               ELSE IF result = "not ok"
               THEN [hook EXCEPT !.phase = "thrown",
                                 !.error = "Slack webhook failed"]
               ELSE [hook EXCEPT !.phase = "thrown", !.error = "fetch failed"]
  /\ UNCHANGED << staging, gitlog, filt, rel, ver, helper >>

SpecHook == InitHook /\ [][SendSlackNotification \/ FetchSettles]_vars

(* ---------------- shared/src/version.js: the increments --------------- *)
\* incrementMinor with the patch kept
incrementMinor_keepsPatch(version) ==
  LET p == parseVersion(version)
  IN IF ~ p.ok THEN p
     ELSE [ ok |-> TRUE,
            version |-> << "v" >> \o NumberDigits(p.major) \o << "." >>
                        \o NumberDigits(p.minor + 1) \o << "." >>
                        \o NumberDigits(p.patch) ]

\* `v${major}.${minor + 1}.0`, or the error of parseVersion
incrementMinor(version) ==
  LET p == parseVersion(version)
  IN IF ~ p.ok THEN p
     ELSE [ ok |-> TRUE,
            version |-> << "v" >> \o NumberDigits(p.major) \o << "." >>
                        \o NumberDigits(p.minor + 1) \o << ".", "0" >> ]

\* `v${major + 1}.0.0`, or the error of parseVersion
incrementMajor(version) ==
  LET p == parseVersion(version)
  IN IF ~ p.ok THEN p
     ELSE [ ok |-> TRUE,
            version |-> << "v" >> \o NumberDigits(p.major + 1)
                        \o << ".", "0", ".", "0" >> ]

\* the components of the tags given to the increments: with a carry, of
\* two digits, with a leading zero
TagComponents ==
  { << "0" >>, << "9" >>, << "1", "2" >>, << "9", "9" >>, << "0", "7" >> }

InitIncrement ==
  \* the tags given to the increments, and two that parseVersion rejects
  LET IncrementTags ==
        { prefix \o a \o << "." >> \o b \o << "." >> \o c :
            prefix \in { << >>, << "v" >> },
            a \in TagComponents, b \in TagComponents, c \in TagComponents }
        \cup { << "v", "1", ".", "2" >>, << "v", "1", ".", "2", ".", "x" >> }
  IN
  /\ channel = <<>>
  /\ clock = 0
  /\ run = [ r \in Runs |-> IdleRun ]
  /\ started = 0
  /\ faults = 0
  /\ overlap = FALSE
  /\ raced = {}
  /\ posted = {}
  /\ helper = Unused
  /\ rq = RqIdle
  /\ th = ThIdle
  /\ gitlog = Unused /\ filt = Unused /\ rel = Unused /\ hook = Unused
  /\ \E tag \in IncrementTags, level \in { "patch", "minor", "major" } :
       ver = [ phase |-> "called", tag |-> tag, level |-> level,
               result |-> << >>, error |-> "" ]

\* one call of incrementPatch, incrementMinor or incrementMajor
Increment ==
  /\ ver.phase = "called"
  /\ LET r == IF ver.level = "patch" THEN incrementPatch(ver.tag)
              ELSE IF ver.level = "minor" THEN incrementMinor(ver.tag)
              ELSE incrementMajor(ver.tag)
     IN ver' = IF r.ok
               THEN [ver EXCEPT !.phase = "returned", !.result = r.version]
               ELSE [ver EXCEPT !.phase = "thrown", !.error = r.error]
  /\ UNCHANGED << staging, gitlog, filt, rel, hook, helper >>

SpecIncrement == InitIncrement /\ [][Increment]_vars

(* -------- fe-staging-notification/src/slack.js: the ticket regex ------- *)
\* extractJiraFromText on a string given as the sequence of its characters
\* number of words of the longest text
MaxWords == 3

Letters == << "a", "b", "c", "d", "e", "f", "g", "h", "i", "j", "k", "l", "m", "n", "o", "p", "q", "r", "s", "t", "u", "v", "w", "x", "y", "z" >>
\* String.prototype.toUpperCase, character by character
UpperChar(ch) ==
  LET Capitals == << "A", "B", "C", "D", "E", "F", "G", "H", "I", "J", "K",
                     "L", "M", "N", "O", "P", "Q", "R", "S", "T", "U", "V",
                     "W", "X", "Y", "Z" >>
  IN
  IF \E k \in 1..Len(Letters) : Letters[k] = ch
  THEN Capitals[CHOOSE k \in 1..Len(Letters) : Letters[k] = ch]
  ELSE ch

StringToUpperCase(s) == [ k \in 1..Len(s) |-> UpperChar(s[k]) ]

\* Array.prototype.join
RECURSIVE Join(_, _)
Join(words, sep) ==
  IF words = << >> THEN << >>
  ELSE IF Len(words) = 1 THEN words[1]
  ELSE words[1] \o sep \o Join(Tail(words), sep)

\* the number of digits at the places i, i+1, ... of s, five at most
RECURSIVE DigitsAt(_, _, _)
DigitsAt(s, i, most) ==
  IF most = 0 \/ i > Len(s) \/ ~ IsDigit(s[i]) THEN 0
  ELSE 1 + DigitsAt(s, i + 1, most - 1)

\* the length of the match of /IL-\d{3,5}/i that starts at place i, 0 when
\* there is none; the quantifier is greedy
MatchLengthAt(s, i) ==
  IF /\ i + 2 <= Len(s)
     /\ s[i] \in { "I", "i" }
     /\ s[i + 1] \in { "L", "l" }
     /\ s[i + 2] = "-"
     /\ DigitsAt(s, i + 3, 5) >= 3
  THEN 3 + DigitsAt(s, i + 3, 5)
  ELSE 0

\* text.match(/IL-\d{3,5}/gi) || []: the matches from place i on, each
\* search starting where the match before ended
RECURSIVE MatchAll(_, _)
MatchAll(s, i) ==
  IF i > Len(s) THEN << >>
  ELSE LET n == MatchLengthAt(s, i)
       IN IF n > 0 THEN << SubSeq(s, i, i + n - 1) >> \o MatchAll(s, i + n)
          ELSE MatchAll(s, i + 1)

\* extractJiraFromText without toUpperCase
extractJiraFromString_asWritten(text) == Dedupe(MatchAll(text, 1))

\* [...new Set(matches.map((t) => t.toUpperCase()))]
extractJiraFromString(text) ==
  LET matches == MatchAll(text, 1)
  IN Dedupe([ k \in 1..Len(matches) |-> StringToUpperCase(matches[k]) ])

InitJiraText ==
  \* the words the texts are made of
  LET Words ==
        { << "I", "L", "-", "1", "0", "1" >>,
          << "i", "l", "-", "1", "0", "1" >>,
          << "I", "l", "-", "1", "0", "2" >>,
          << "I", "L", "-", "1", "2", "3", "4", "5", "6", "7" >>,
          << "F", "A", "I", "L", "-", "1", "0", "1" >>,
          << "I", "L", "-", "1", "2" >>,
          << "3" >>,
          << "f", "i", "x" >> }
  IN
  /\ channel = <<>>
  /\ clock = 0
  /\ run = [ r \in Runs |-> IdleRun ]
  /\ started = 0
  /\ faults = 0
  /\ overlap = FALSE
  /\ raced = {}
  /\ posted = {}
  /\ rq = RqIdle
  /\ th = ThIdle
  /\ gitlog = Unused /\ filt = Unused /\ rel = Unused /\ hook = Unused
  /\ ver = Unused
  /\ \E words \in SeqsUpTo(Words, MaxWords), sep \in { << " " >>, << >> } :
       helper = [ phase |-> "called", fn |-> "extractJiraFromText",
                  text |-> Join(words, sep), out |-> << >> ]

ExtractJiraFromText ==
  /\ helper.phase = "called"
  /\ helper.fn = "extractJiraFromText"
  /\ helper' = [helper EXCEPT !.phase = "returned",
                              !.out = extractJiraFromString(helper.text)]
  /\ UNCHANGED << staging, gitlog, filt, rel, hook, ver >>

SpecJiraText == InitJiraText /\ [][ExtractJiraFromText]_vars

(* ----- prod-deployment-notification/src/slack.js: the payload ---------- *)
\* A text is the sequence of its lines, a line the sequence of its pieces:
\* plain text, a markdown link [text](url) or a Slack link <url|text>.
\* number of lines of the longest release notes
MaxNoteLines == 2

Plain(s) == [ kind |-> "text", text |-> s, url |-> "" ]
MarkdownLink(text, url) == [ kind |-> "markdown link", text |-> text, url |-> url ]
SlackLink(url, text) == [ kind |-> "slack link", text |-> text, url |-> url ]

\* text.replace(/\[([^\]]+)\]\(([^)]+)\)/g, '<$2|$1>') on one line
ConvertLine(line) ==
  [ k \in 1..Len(line) |->
      IF line[k].kind = "markdown link" THEN SlackLink(line[k].url, line[k].text)
      ELSE line[k] ]

\* formatting.js convertMarkdownToSlack
convertMarkdownToSlack(text) ==
  IF text.absent \/ text.lines = << >> THEN << >>
  ELSE [ k \in 1..Len(text.lines) |-> ConvertLine(text.lines[k]) ]

\* hasNewCommits with the sentinel not looked at
payloadHasNewCommits_anyNotes(releaseNotes) ==
  ~ releaseNotes.absent /\ releaseNotes.lines # << >>

\* const hasNewCommits = releaseNotes && releaseNotes !== 'No new commits'
payloadHasNewCommits(releaseNotes) ==
  /\ ~ releaseNotes.absent /\ releaseNotes.lines # << >>
  /\ releaseNotes.lines # << << Plain("No new commits") >> >>

buildDeploymentPayload(projectName, releaseNotes, repoUrl, runId) ==
  LET runUrl == SlackLink(repoUrl \o "/actions/runs/" \o runId, "")
  IN IF payloadHasNewCommits(releaseNotes)
     THEN [ text |->
              << << Plain("<!here> :rocket: "), Plain(projectName), Plain(" deployed to Mainnet!") >>,
                 << Plain("View the deployment results on Github: "), runUrl, Plain(".") >>,
                 << Plain("The commits deployed are:") >> >>
              \o convertMarkdownToSlack(releaseNotes),
            attachments |->
              << [ text |-> << Plain(projectName), Plain(" deployed to Mainnet :white_check_mark:") >>,
                   color |-> "#22bb33" ] >> ]
     ELSE [ text |->
              << << Plain("<!here> :rocket: "), Plain(projectName),
                    Plain(" Rebuilt on Mainnet! Good guys, close your eyes! :hammer_and_wrench::smile:") >> >>,
            attachments |->
              << [ text |-> << Plain("View the deployment results on Github: "), runUrl, Plain(".") >>,
                   color |-> "#22bb33" ] >> ]

InitPayload ==
  \* the values of releaseNotes: undefined, or a string (the empty one has no line)
  LET ReleaseNotesValues ==
        \* the lines release notes are made of: the sentinel, the sentinel in lower
        \* case, a commit line with two links, a line without link, a line of
        \* one space
        LET NoteLines ==
              { << Plain("No new commits") >>,
                << Plain("no new commits") >>,
                << Plain("- "), MarkdownLink("abc1234", "https://github.com/org/repo/commit/abc1234"),
                   Plain(" - feat: a by @ann in "),
                   MarkdownLink("#12", "https://github.com/org/repo/pull/12") >>,
                << Plain("- chore: b") >>,
                << Plain(" ") >> }
        IN
        { [ absent |-> TRUE, lines |-> << >> ] }
        \cup { [ absent |-> FALSE, lines |-> ls ] : ls \in SeqsUpTo(NoteLines, MaxNoteLines) }
  IN
  /\ channel = <<>>
  /\ clock = 0
  /\ run = [ r \in Runs |-> IdleRun ]
  /\ started = 0
  /\ faults = 0
  /\ overlap = FALSE
  /\ raced = {}
  /\ posted = {}
  /\ rq = RqIdle
  /\ th = ThIdle
  /\ gitlog = Unused /\ filt = Unused /\ rel = Unused /\ hook = Unused
  /\ ver = Unused
  /\ \E projectName \in { "Helix", "Hub" }, runId \in { "20041603958", "7" },
        releaseNotes \in ReleaseNotesValues :
       helper = [ phase |-> "called", fn |-> "buildDeploymentPayload",
                  projectName |-> projectName, runId |-> runId,
                  releaseNotes |-> releaseNotes,
                  out |-> [ text |-> << >>, attachments |-> << >> ] ]

BuildDeploymentPayload ==
  /\ helper.phase = "called"
  /\ helper.fn = "buildDeploymentPayload"
  /\ helper' = [helper EXCEPT
                  !.phase = "returned",
                  !.out = buildDeploymentPayload(helper.projectName,
                            helper.releaseNotes, "https://github.com/org/repo",
                            helper.runId)]
  /\ UNCHANGED << staging, gitlog, filt, rel, hook, ver >>

SpecPayload == InitPayload /\ [][BuildDeploymentPayload]_vars

(* --------- fe-staging-notification/src/git.js: getBranchName ----------- *)
\* the environment of a run: three variables ("" when not set) and the
\* event file GITHUB_EVENT_PATH points to
Env(inputBranch, eventFile, headRef, refName) ==
  [ INPUT_BRANCH |-> inputBranch, event |-> eventFile,
    GITHUB_HEAD_REF |-> headRef, GITHUB_REF_NAME |-> refName ]

\* eventData.inputs?.branch after JSON.parse(readFileSync(eventPath)); ""
\* when the try block throws or the branch is not there
EventBranch(eventFile) ==
  IF eventFile.kind \in { "unreadable", "malformed", "null" } THEN ""
  ELSE IF eventFile.kind = "no inputs" THEN ""
  ELSE eventFile.branch

\* getBranchName with the pull-request head ref looked at before the event
getBranchName_headRefFirst(env) ==
  IF env.INPUT_BRANCH # "" THEN [ ok |-> TRUE, value |-> env.INPUT_BRANCH ]
  ELSE IF env.GITHUB_HEAD_REF # ""
  THEN [ ok |-> TRUE, value |-> env.GITHUB_HEAD_REF ]
  ELSE IF env.event.kind # "no path" /\ EventBranch(env.event) # ""
  THEN [ ok |-> TRUE, value |-> EventBranch(env.event) ]
  ELSE IF env.GITHUB_REF_NAME # ""
  THEN [ ok |-> TRUE, value |-> env.GITHUB_REF_NAME ]
  ELSE [ ok |-> FALSE, value |-> "Could not determine branch name" ]

getBranchName(env) ==
  IF env.INPUT_BRANCH # "" THEN [ ok |-> TRUE, value |-> env.INPUT_BRANCH ]
  ELSE IF env.event.kind # "no path" /\ EventBranch(env.event) # ""
  THEN [ ok |-> TRUE, value |-> EventBranch(env.event) ]
  ELSE IF env.GITHUB_HEAD_REF # ""
  THEN [ ok |-> TRUE, value |-> env.GITHUB_HEAD_REF ]
  ELSE IF env.GITHUB_REF_NAME # ""
  THEN [ ok |-> TRUE, value |-> env.GITHUB_REF_NAME ]
  ELSE [ ok |-> FALSE, value |-> "Could not determine branch name" ]

\* run: const branchName = inputs.branch || getBranchName()
BranchNameOfRun(env) ==
  \* core.getInput trims the value of the variable
  LET TrimInput(s) ==
        IF s = "  " THEN "" ELSE IF s = " feat/input " THEN "feat/input" ELSE s
  IN
  LET branch == TrimInput(env.INPUT_BRANCH)
  IN IF branch # "" THEN [ ok |-> TRUE, value |-> branch ]
     ELSE getBranchName(env)

InitBranch ==
  LET Envs ==
        \* the event file: GITHUB_EVENT_PATH not set, a file that cannot be read,
        \* one that is no JSON, the JSON value null, an event without inputs, with
        \* inputs without branch, with an empty branch, with a branch
        LET EventFiles ==
              { [ kind |-> "no path", branch |-> "" ],
                [ kind |-> "unreadable", branch |-> "" ],
                [ kind |-> "malformed", branch |-> "" ],
                [ kind |-> "null", branch |-> "" ],
                [ kind |-> "no inputs", branch |-> "" ],
                [ kind |-> "inputs", branch |-> "" ],
                [ kind |-> "inputs", branch |-> "feat/event" ] }
        IN
        { Env(i, e, h, r) : i \in { "", "feat/input", " feat/input ", "  " },
                            e \in EventFiles,
                            h \in { "", "feat/pr" },
                            r \in { "", "main" } }
  IN
  /\ channel = <<>>
  /\ clock = 0
  /\ run = [ r \in Runs |-> IdleRun ]
  /\ started = 0
  /\ faults = 0
  /\ overlap = FALSE
  /\ raced = {}
  /\ posted = {}
  /\ rq = RqIdle
  /\ th = ThIdle
  /\ gitlog = Unused /\ filt = Unused /\ rel = Unused /\ hook = Unused
  /\ ver = Unused
  /\ \E env \in Envs :
       helper = [ phase |-> "called", fn |-> "getBranchName", env |-> env,
                  branchName |-> "", error |-> "" ]

\* step 1 of run: the branch name, or the error thrown by getBranchName
GetBranchName ==
  /\ helper.phase = "called"
  /\ helper.fn = "getBranchName"
  /\ LET r == BranchNameOfRun(helper.env)
     IN helper' = IF r.ok
                  THEN [helper EXCEPT !.phase = "returned", !.branchName = r.value]
                  ELSE [helper EXCEPT !.phase = "thrown", !.error = r.value]
  /\ UNCHANGED << staging, gitlog, filt, rel, hook, ver >>

SpecBranch == InitBranch /\ [][GetBranchName]_vars

(* --------- updateMessage, the update of a run and its repetition ------- *)
\* the run that made the last update is made once more: the same staging
\* URL and the same commits; the tickets of the thread are read from the
\* thread as the run has left it, its reply included
RepeatUpdate ==
  /\ th.updates >= 1
  /\ IF helper.phase = "unused" THEN TRUE ELSE helper.at # th.updates
  /\ LET stagingUrl == StagingUrlOf(th.updates)
         allText == th.root \o Flatten(th.replies)
         existing == extractJiraFromText(allText)
         second == updateMessageText(th.root, stagingUrl, th.newJiraTickets,
                                     existing)
     IN /\ helper' = [ phase |-> "repeated", at |-> th.updates,
                       first |-> th.root, second |-> second ]
        /\ th' = [ th EXCEPT
                     !.root = second,
                     !.replies = Append(th.replies,
                                   postThreadReplyText(Network, Description,
                                                       stagingUrl, Author)),
                     !.before = th.root,
                     !.existingJiraTickets = existing ]
  /\ UNCHANGED << channel, clock, run, started, faults, overlap, raced,
                  posted, rq,
                  gitlog, filt, rel, hook, ver >>

SpecRepeat == InitUpdate /\ [][UpdateThread \/ RepeatUpdate]_vars

(* ============================== claims ================================ *)
\* the calls of one API among the calls a run has issued, by position
CallsOf(rec, api) ==
  { i \in 1..Len(rec.calls) : rec.calls[i].api = api }

(* ---- C1 ---- *)
\* C1: as long as no run was started while another one was under way (each
\* search sees what the earlier runs posted), the channel holds at most one
\* root message for a (repo, branch): the first run posts it and the later
\* runs find it.
C1_AtMostOneRoot ==
  ~ overlap =>
    \A b \in Branches : Cardinality(RootsOf(channel, Repo, b)) <= 1

(* ---- C2 ---- *)
\* C2: an error at any step of run() ends in the catch block: the run is
\* over with a warning, and no run is ever marked failed (core.setFailed,
\* non-zero exit).
C2_OnlyWarned ==
  \A r \in Runs :
    /\ ~ run[r].failed
    /\ run[r].warned => run[r].pc = "done"

\* a run whose Slack call threw is over, warned and not failed
C2_Witness ==
  \E r \in Runs :
    /\ run[r].calls # <<>>
    /\ run[r].pc = "done"
    /\ run[r].warned
    /\ ~ run[r].failed

(* ---- C3 ---- *)
\* C3: a run whose search found nothing issues chat.postMessage exactly
\* once, without thread_ts, and no threaded reply; it issues chat.update at
\* most once, exactly when the post has returned, as the call right after
\* the post, on the ts the post returned (a root of the channel), with the
\* posted text plus the Message ID line carrying that ts.
C3_CreatePath ==
  \A r \in Runs : run[r].message_found = "false" =>
    LET calls == run[r].calls
        posts == CallsOf(run[r], "chat.postMessage")
        updates == CallsOf(run[r], "chat.update")
    IN /\ Cardinality(posts) = 1
       /\ \A i \in posts : calls[i].thread_ts = 0
       /\ Cardinality(updates) <= 1
       /\ (updates # {}) <=> (run[r].id \in posted)
       /\ \A u \in updates :
            /\ u = Len(calls)
            /\ u - 1 \in posts
            /\ calls[u].ts # 0
            /\ calls[u].ts = run[r].messageTs
            /\ \E i \in 1..Len(channel) :
                 channel[i].ts = calls[u].ts /\ channel[i].thread_ts = 0
            /\ calls[u].text =
                 Append(calls[u - 1].text,
                        Line("Message ID", <<>>, calls[u].ts))

\* a run went through the whole create path without an error
C3_Witness ==
  \E r \in Runs :
    /\ run[r].message_found = "false"
    /\ run[r].pc = "done"
    /\ ~ run[r].warned
    /\ run[r].id \in posted
    /\ CallsOf(run[r], "chat.update") # {}

(* ---- C4 ---- *)
\* the text the reply of a run records: network, description, preview URL
\* and author
ReplyTextOf(rec) ==
  postThreadReplyText(Network, Description, rec.stagingUrl, Author)

Accumulated ==
  Range(extractJiraFromText(th.before))
  \cup UNION { Range(extractJiraFromText(th.replies[i])) :
               i \in 1..(Len(th.replies) - 1) }

\* what the last update has put behind the ticket field the root had
AppendedTickets ==
  SubSeq(JiraField(th.root), Len(JiraField(th.before)) + 1,
         Len(JiraField(th.root)))

\* C5: an update leaves the ticket field of the root as it was and appends
\* to it exactly the new tickets that are not among the tickets of the
\* whole thread, in the order of the new tickets (nothing when there is
\* none); no ticket occurs twice in the field.
C5_AppendsDifference ==
  LET NoDuplicates(s) == \A i, j \in 1..Len(s) : i # j => s[i] # s[j]
  IN
  th.updates >= 1 =>
    LET old == JiraField(th.before)
        now == JiraField(th.root)
    IN /\ Len(now) >= Len(old)
       /\ SubSeq(now, 1, Len(old)) = old
       /\ AppendedTickets =
            SelectSeq(th.newJiraTickets, LAMBDA t : t \notin Accumulated)
       /\ NoDuplicates(now)

\* an update appended a ticket to a field that had one, and left out a new
\* ticket the thread had already
C5_Witness ==
  /\ th.updates >= 1
  /\ JiraField(th.before) # <<>>
  /\ AppendedTickets # <<>>
  /\ Len(AppendedTickets) < Len(th.newJiraTickets)

(* ---- C6 ---- *)
\* C6: after each of any number of successive updates the root has exactly
\* one staging URL field, with the URL of the run that made the update, and
\* the URL of no earlier deployment is left in the root.
C6_OnlyCurrentUrl ==
  th.updates >= 1 =>
    /\ StagingUrlFields(th.root) = << StagingUrlOf(th.updates) >>
    /\ \A k \in 0..(th.updates - 1) :
         ~ TextIncludes(th.root, StagingUrlOf(k))

\* the root after the second update of the thread or a later one
C6_Witness ==
  /\ th.updates >= 2
  /\ StagingUrlFields(th.root) = << StagingUrlOf(th.updates) >>

(* ---- C7 ---- *)
\* C7: no step of any run, in any interleaving of the runs, takes a ticket
\* out of the ticket field of a root message: the tickets linked in a root
\* only grow.
C7_TicketsOnlyGrow ==
  [][ \A i \in 1..Len(channel) :
        channel[i].thread_ts = 0 =>
          Range(JiraField(channel[i].text))
            \subseteq Range(JiraField(channel'[i].text)) ]_vars

(* ---- C8 ---- *)
\* C8: when the searches of two runs for the same (repo, branch) both found
\* nothing before either run had posted, then from the moment both posts
\* have returned the channel holds at least two root messages for that
\* pair, and it keeps them whatever the runs do afterwards.
C8_TwoRootsAfterRace ==
  \A p \in raced :
    p.runs \subseteq posted =>
      Cardinality(RootsOf(channel, Repo, p.branchName)) >= 2

\* two runs raced, both posted, and every run is over
C8_Witness ==
  /\ \E p \in raced : Cardinality(p.runs) = 2 /\ p.runs \subseteq posted
  /\ \A r \in Runs : ~ Active(r)

(* ---- C9 ---- *)
\* C9: after a response with ok=false whose error is not one isRetryableError
\* accepts, the call has thrown the error of that response at once: no
\* wait and no further attempt; after one whose error is retryable, with
\* attempts left, the call has not thrown.
C9_RetryIffRetryable ==
  \A i \in 1..Len(rq.log) :
    rq.log[i].kind = "api" =>
      IF isRetryableError(rq.log[i].error)
      THEN i < MAX_RETRIES => ~ (rq.phase = "thrown" /\ rq.made = i)
      ELSE /\ i = Len(rq.log)
           /\ rq.made = i
           /\ rq.sleeps = i - 1
           /\ rq.phase = "thrown"
           /\ rq.thrown = << rq.log[i] >>

(* ---- C10 ---- *)
\* C10: one call of slackRequest makes at most MAX_RETRIES attempts, one at
\* a time; a response with ok=true is the last one of the call and is what
\* the call returns; after the third failed attempt no attempt follows and
\* what the call throws is the error of that attempt.
C10_AtMostThreeAttempts ==
  /\ rq.made <= MAX_RETRIES
  /\ rq.inflight \in { 0, 1 }
  /\ rq.inflight = 1 <=> rq.phase = "waiting"
  /\ \A i \in 1..Len(rq.log) :
       rq.log[i].kind = "ok" =>
         /\ i = Len(rq.log)
         /\ rq.made = i
         /\ rq.phase = "returned"
         /\ rq.returned = << rq.log[i] >>
  /\ rq.phase = "returned" => rq.log[Len(rq.log)].kind = "ok"
  /\ ( Len(rq.log) = MAX_RETRIES /\ rq.log[MAX_RETRIES].kind # "ok" ) =>
       /\ rq.phase \in { "sleeping", "thrown" }
       /\ rq.phase = "thrown" => rq.thrown = << rq.log[MAX_RETRIES] >>

\* the call has thrown after three failed attempts
C10_Witness ==
  /\ rq.phase = "thrown"
  /\ rq.made = MAX_RETRIES
  /\ Len(rq.log) = MAX_RETRIES
  /\ \A i \in 1..MAX_RETRIES : rq.log[i].kind # "ok"
  /\ rq.thrown = << rq.log[MAX_RETRIES] >>

(* ---- C11 ---- *)
\* C11: every call of slackRequest eventually returns or throws, even if
\* the remote side never answers an attempt.
C11_EveryCallEnds ==
  <>(rq.phase \in { "returned", "thrown" })

(* ---- C12 ---- *)
\* C12: every commit getCommitsBetweenWithMerges has collected or returned,
\* first-parent commit or merged commit, has a timestamp strictly greater
\* than the timestamp of the fromRef commit.
C12_OnlyAfterFromRef ==
  gitlog.phase \in { "loop", "returned" } =>
    /\ \A k \in 1..Len(gitlog.acc.allCommits) :
         gitlog.acc.allCommits[k].timestamp > CommitOf("b").timestamp
    /\ \A k \in 1..Len(gitlog.out) :
         gitlog.out[k].timestamp > CommitOf("b").timestamp

\* a merge commit after fromRef was expanded into commits before, at and
\* after fromRef, and the call returned the merge and the commit after it
C12_Witness ==
  /\ gitlog.phase = "returned"
  /\ gitlog.firstParent = << "m" >>
  /\ gitlog.merged["m"] = << "c", "b", "a" >>
  /\ [ k \in 1..Len(gitlog.out) |-> gitlog.out[k].hash ] = << "m", "c" >>

(* ---- C13 ---- *)
\* the commits met by the traversal up to first-parent position n, in the
\* order in which the loops meet them
RECURSIVE Traversal(_)
Traversal(n) ==
  IF n = 0 THEN << >>
  ELSE LET h == gitlog.firstParent[n]
           sub == IF h \in MergeHashes
                     /\ StartsWithMergePullRequest(CommitOf(h).subject[1])
                     /\ gitlog.merged[h] # << "throw" >>
                  THEN gitlog.merged[h] ELSE << >>
       IN Traversal(n - 1) \o << LogCommit(CommitOf(h)) >>
          \o [ k \in 1..Len(sub) |-> LineCommit(RawLine(CommitOf(sub[k]))) ]

\* of the commits of s with the same hash, the first one only
RECURSIVE KeepFirst(_)
KeepFirst(s) ==
  IF s = << >> THEN << >>
  ELSE LET init == KeepFirst(SubSeq(s, 1, Len(s) - 1))
           last == s[Len(s)]
       IN IF \E k \in 1..Len(init) : init[k].hash = last.hash THEN init
          ELSE Append(init, last)

\* C13: no two commits of the output have the same hash; of the commits
\* after fromRef that the traversal meets several times, the output has
\* the occurrence met first, at its place in the order of the traversal.
C13_NoDuplicateHash ==
  gitlog.phase \in { "loop", "returned" } =>
    LET all == gitlog.acc.allCommits
        after == SelectSeq(Traversal(gitlog.i - 1),
                   LAMBDA c : c.timestamp > CommitOf("b").timestamp)
    IN /\ \A j, k \in 1..Len(all) : j # k => all[j].hash # all[k].hash
       /\ all = KeepFirst(after)
       /\ gitlog.phase = "returned" => gitlog.out = all

\* the call returned after a commit was met twice: as a merged commit of
\* two merges, or as a first-parent commit and as a merged commit
C13_Witness ==
  /\ gitlog.phase = "returned"
  /\ gitlog.out # << >>
  /\ LET met == Traversal(Len(gitlog.firstParent))
     IN \E j, k \in 1..Len(met) :
          /\ j < k
          /\ met[j].hash = met[k].hash
          /\ met[j] # met[k]
          /\ met[j] \in Range(gitlog.out)

(* ---- C14 ---- *)
\* the places of the dev merges of a list
DevMerges(commits) ==
  { k \in 1..Len(commits) : isDevToMasterMerge(commits[k]) }

\* the commits of a list at the places of the set S, in the order of the list
RECURSIVE AtPlaces(_, _)
AtPlaces(commits, S) ==
  IF commits = << >> THEN << >>
  ELSE LET n == Len(commits)
           init == AtPlaces(SubSeq(commits, 1, n - 1), S)
       IN IF n \in S THEN Append(init, commits[n]) ELSE init

\* C14: of a list with N >= 1 dev merges and M other commits,
\* filterOldMergeCommits returns the first dev merge and the M other
\* commits in the order of the list, M + 1 commits in all; a list without
\* a dev merge is returned unchanged.
C14_FirstDevMergeAndOthers ==
  filt.phase = "returned" /\ ~ filt.commits.null =>
    LET commits == filt.commits.list
        dev == DevMerges(commits)
        others == (1..Len(commits)) \ dev
        first == CHOOSE k \in dev : \A j \in dev : k <= j
    IN IF dev = {} THEN filt.out = commits
       ELSE /\ filt.out = AtPlaces(commits, others \cup { first })
            /\ Len(filt.out) = Cardinality(others) + 1

\* a list with a commit between two dev merges was filtered
C14_Witness ==
  /\ filt.phase = "returned"
  /\ ~ filt.commits.null
  /\ Len(filt.commits.list) = 3
  /\ DevMerges(filt.commits.list) = { 1, 3 }
  /\ filt.commits.list[1].message # filt.commits.list[3].message
  /\ Len(filt.out) = 2

(* ---- C20 ---- *)
\* after one optional leading 'v', three components between dots, each a
\* non-negative integer
WellFormedTag(tag) ==
  \* a component that is a non-negative integer: digits, and nothing else
  LET IsNumber(part) ==
        /\ part # << >>
        /\ \A k \in 1..Len(part) : IsDigit(part[k])
  IN
  LET rest == IF tag # << >> /\ Head(tag) = "v" THEN Tail(tag) ELSE tag
      parts == Split(rest)
  IN /\ Len(parts) = 3
     /\ \A k \in 1..3 : IsNumber(parts[k])

\* C20: parseVersion returns a Version only for a tag that, after one
\* optional leading 'v', has exactly three components between dots, each a
\* non-negative integer; for every other tag it throws.
C20_OnlyWellFormedParsed ==
  ver.phase \in { "returned", "thrown" } =>
    (ver.phase = "returned" => WellFormedTag(ver.tag))

(* ---- C15 ---- *)
\* the value of an output of the release-note action
OutputOf(name) == CHOOSE v \in { o[2] : o \in { p \in rel.outputs : p[1] = name } } : TRUE

\* C15: the Bugsnag version of a release-note run is the previous tag
\* exactly when the release notes are "No new commits", and the
\* patch-incremented tag otherwise; v1.17.12 gives v1.17.13 only with commits.
C15_BugsnagVersion ==
  rel.phase = "done" /\ ~ rel.failed =>
    LET bugsnag == OutputOf("bugsnag_version")
        notes == OutputOf("release_notes")
        inc == incrementPatch(rel.previousTag).version
    IN /\ bugsnag = rel.previousTag <=> notes = NoNewCommits
       /\ notes # NoNewCommits => bugsnag = inc
       /\ rel.previousTag = << "v", "1", ".", "1", "7", ".", "1", "2" >> =>
            (bugsnag = << "v", "1", ".", "1", "7", ".", "1", "3" >>
               <=> Len(rel.commits) > 0)

\* a run from v1.17.12 with commits, an old dev merge among them, reported
\* v1.17.13
C15_Witness ==
  /\ rel.phase = "done"
  /\ ~ rel.failed
  /\ rel.previousTag = << "v", "1", ".", "1", "7", ".", "1", "2" >>
  /\ Len(rel.commits) = 3
  /\ Len(OutputOf("release_notes")) = 2
  /\ OutputOf("bugsnag_version") = << "v", "1", ".", "1", "7", ".", "1", "3" >>

(* ---- C16 ---- *)
\* C16: a release-note run with a malformed previous tag, a previous tag
\* that does not exist, or a commit-date or commit-range query that fails,
\* ends failed and sets no output.
C16_ErrorsAreFatal ==
  rel.phase = "done"
  /\ rel.previousTag # << >> /\ rel.repoUrl # ""
  /\ ( \/ ~ WellFormedTag(rel.previousTag)
       \/ ~ rel.tagExists
       \/ ~ rel.dateOk
       \/ ~ rel.rangeOk )
  => rel.failed /\ rel.outputs = {}

(* ---- C17 ---- *)
\* C17: a run of the staging notification ends failed exactly when a
\* required input is missing (the run has issued no Slack call); a run in
\* which only notification steps fail does not end failed.
C17_FailedIffInputMissing ==
  \A r \in Runs :
    run[r].pc = "done" => (run[r].failed <=> run[r].calls = <<>>)

(* ---- C19 ---- *)
\* C19: a run whose search for an existing message ended in an error
\* (message_found was never set) has gone on to chat.postMessage for a new
\* root message.
C19_SearchFailureFallsBack ==
  \A r \in Runs :
    run[r].pc = "done" /\ run[r].calls # <<>> /\ run[r].message_found = "" =>
      \E k \in 1..Len(run[r].calls) :
        /\ run[r].calls[k].api = "chat.postMessage"
        /\ run[r].calls[k].thread_ts = 0

(* ---- C18 ---- *)
\* C18: sendSlackNotification makes its HTTP request only for a webhook
\* URL that parses with scheme https and hostname hooks.slack.com; for
\* every other URL, and for one that does not parse, it throws with no
\* request made.
C18_PostOnlyToSlackWebhook ==
  LET parsed == ParseUrl(hook.url)
      slack == /\ parsed.ok
               /\ parsed.protocol = "https"
               /\ parsed.hostname = "hooks.slack.com"
  IN hook.phase # "called" =>
       /\ hook.requests # << >> => slack /\ hook.requests = << hook.url >>
       /\ ~ slack => /\ hook.phase = "thrown"
                     /\ hook.error = "Invalid Slack webhook URL"
                     /\ hook.requests = << >>

\* a URL with hooks.slack.com as its user name and another host was
\* refused, with no request made
C18_Witness ==
  /\ hook.phase = "thrown"
  /\ hook.url.scheme = "https"
  /\ hook.url.userinfo = "hooks.slack.com"
  /\ hook.url.host = "evil.io"
  /\ hook.requests = << >>

(* ---- C21 ---- *)
\* C21: for a valid tag the patch increment gives (major, minor, patch+1),
\* the minor increment (major, minor+1, 0), the major increment
\* (major+1, 0, 0), and the result is written with the 'v' prefix whether
\* or not the tag had one.
C21_Increments ==
  ver.phase \in { "returned", "thrown" } /\ WellFormedTag(ver.tag) =>
    LET p == parseVersion(ver.tag)
        q == parseVersion(ver.result)
        want == IF ver.level = "patch" THEN << p.major, p.minor, p.patch + 1 >>
                ELSE IF ver.level = "minor" THEN << p.major, p.minor + 1, 0 >>
                ELSE << p.major + 1, 0, 0 >>
    IN /\ ver.phase = "returned"
       /\ WellFormedTag(ver.result)
       /\ Head(ver.result) = "v"
       /\ q.ok /\ q.prefix = "v"
       /\ << q.major, q.minor, q.patch >> = want

\* the minor increment of 9.99.07, a tag without prefix, gave v9.100.0
C21_Witness ==
  /\ ver.phase = "returned"
  /\ ver.level = "minor"
  /\ ver.tag = << "9", ".", "9", "9", ".", "0", "7" >>
  /\ ver.result = << "v", "9", ".", "1", "0", "0", ".", "0" >>

(* ---- C22 ---- *)
\* the first place of the text where the key t is written, in any case,
\* and is not the start of a key with more digits
FirstPlace(text, t) ==
  LET at == { i \in 1..Len(text) :
                /\ i + Len(t) - 1 <= Len(text)
                /\ StringToUpperCase(SubSeq(text, i, i + Len(t) - 1)) = t
                /\ \/ Len(t) = 8
                   \/ i + Len(t) > Len(text)
                   \/ ~ IsDigit(text[i + Len(t)]) }
  IN IF at = {} THEN 0 ELSE CHOOSE i \in at : \A j \in at : i <= j

\* C22: extractJiraFromText returns upper-case ticket keys, each once, in
\* the order of their first appearance in the text, keys written in
\* another case counting as the same ticket; applied to its result joined
\* by spaces it returns the same list.
C22_UniqueUpperInOrder ==
  \* a ticket key in its upper-case form: IL- and three to five digits
  LET IsKey(t) ==
        /\ Len(t) \in 6..8
        /\ SubSeq(t, 1, 3) = << "I", "L", "-" >>
        /\ \A k \in 4..Len(t) : IsDigit(t[k])
  IN
  helper.phase = "returned" /\ helper.fn = "extractJiraFromText" =>
    LET out == helper.out
        matches == MatchAll(helper.text, 1)
    IN /\ \A k \in 1..Len(out) : IsKey(out[k]) /\ FirstPlace(helper.text, out[k]) > 0
       /\ \A j, k \in 1..Len(out) : j # k => out[j] # out[k]
       /\ \A j, k \in 1..Len(out) :
            j < k => FirstPlace(helper.text, out[j]) < FirstPlace(helper.text, out[k])
       /\ \A k \in 1..Len(matches) : StringToUpperCase(matches[k]) \in Range(out)
       /\ extractJiraFromString(Join(out, << " " >>)) = out

\* a text with one ticket written in two cases and another ticket after it
C22_Witness ==
  /\ helper.phase = "returned"
  /\ helper.fn = "extractJiraFromText"
  /\ helper.text = Join(<< << "i", "l", "-", "1", "0", "1" >>,
                           << "I", "L", "-", "1", "0", "1" >>,
                           << "I", "l", "-", "1", "0", "2" >> >>, << " " >>)
  /\ helper.out = << << "I", "L", "-", "1", "0", "1" >>,
                     << "I", "L", "-", "1", "0", "2" >> >>

(* ---- C23 ---- *)
\* the payload is the 'deployed' message with the commits
IsDeployedWithCommits(payload) ==
  /\ Len(payload.text) > 3
  /\ payload.text[1][3] = Plain(" deployed to Mainnet!")
  /\ payload.text[3] = << Plain("The commits deployed are:") >>

\* C23: buildDeploymentPayload gives the 'rebuilt' message exactly when
\* releaseNotes is absent, empty or "No new commits", and otherwise the
\* 'deployed' message, whose text has the notes with every markdown link
\* turned into a Slack link; either has one attachment, of color #22bb33.
C23_PayloadVariant ==
  \* the payload is the 'rebuilt' message
  LET IsRebuilt(payload) ==
        /\ Len(payload.text) = 1
        /\ \E k \in 1..Len(payload.text[1]) :
             payload.text[1][k] = Plain(" Rebuilt on Mainnet! Good guys, close your eyes! :hammer_and_wrench::smile:")
  IN
  helper.phase = "returned" /\ helper.fn = "buildDeploymentPayload" =>
    LET notes == helper.releaseNotes
        payload == helper.out
        none == \/ notes.absent
                \/ notes.lines = << >>
                \/ notes.lines = << << Plain("No new commits") >> >>
        body == SubSeq(payload.text, 4, Len(payload.text))
    IN /\ IsRebuilt(payload) <=> none
       /\ ~ none =>
            /\ IsDeployedWithCommits(payload)
            /\ Len(body) = Len(notes.lines)
            /\ \A i \in 1..Len(body) :
                 /\ Len(body[i]) = Len(notes.lines[i])
                 /\ \A k \in 1..Len(body[i]) :
                      LET was == notes.lines[i][k]
                      IN IF was.kind = "markdown link"
                         THEN body[i][k] = SlackLink(was.url, was.text)
                         ELSE body[i][k] = was
       /\ Len(payload.attachments) = 1
       /\ payload.attachments[1].color = "#22bb33"

\* notes of the sentinel in lower case and a commit line gave the
\* 'deployed' message
C23_Witness ==
  /\ helper.phase = "returned"
  /\ helper.fn = "buildDeploymentPayload"
  /\ Len(helper.releaseNotes.lines) = 2
  /\ helper.releaseNotes.lines[1] = << Plain("no new commits") >>
  /\ \E k \in 1..Len(helper.releaseNotes.lines[2]) :
       helper.releaseNotes.lines[2][k].kind = "markdown link"
  /\ IsDeployedWithCommits(helper.out)

(* ---- C24 ---- *)
\* C24: the branch name of a run is the value of the first source that is
\* set, of the action's branch input (surrounding white space aside), the
\* branch of the event's inputs, the pull-request head ref and the current
\* ref name; an event file that cannot be read or parsed counts as not set;
\* with no source set the detection throws 'Could not determine branch name'.
C24_FirstSourceSet ==
  \* the four sources of the branch name in their order; "" for one not set
  LET BranchSources(env) ==
        << env.INPUT_BRANCH,
           IF env.event.kind = "inputs" THEN env.event.branch ELSE "",
           env.GITHUB_HEAD_REF,
           env.GITHUB_REF_NAME >>
  IN
  helper.phase \in { "returned", "thrown" } /\ helper.fn = "getBranchName" =>
    LET sources == BranchSources(helper.env)
        set == { k \in 1..4 : sources[k] # "" }
        first == CHOOSE k \in set : \A j \in set : k <= j
    IN IF set = {}
       THEN helper.phase = "thrown" /\ helper.error = "Could not determine branch name"
       ELSE /\ helper.phase = "returned"
            /\ \/ helper.branchName = sources[first]
               \/ first = 1 /\ helper.branchName = "feat/input"
                            /\ sources[1] = " feat/input "

\* no branch input, an event file that is no JSON: the head ref was taken,
\* before the ref name
C24_Witness ==
  /\ helper.phase = "returned"
  /\ helper.fn = "getBranchName"
  /\ helper.env.INPUT_BRANCH = ""
  /\ helper.env.event.kind = "malformed"
  /\ helper.env.GITHUB_REF_NAME = "main"
  /\ helper.branchName = "feat/pr"

(* ---- C25 ---- *)
\* C25: a slackRequest call that is over after k attempts has slept
\* exactly k - 1 times: no sleep follows the attempt that ends the call,
\* be it a success, a failure not retried or the third failure.
C25_SleepsBetweenAttempts ==
  rq.phase \in { "returned", "thrown" } => rq.sleeps = rq.made - 1

(* ---- C26 ---- *)
\* C26: the first-parent commits visited so far for which the range
\* ^1..^2 was queried are exactly those isPRMergeCommit classifies as
\* pull-request merges.
C26_ExpandsIffPRMerge ==
  gitlog.phase \in { "loop", "returned" } =>
    \A k \in 1..Len(gitlog.mergeCommits) :
      k < gitlog.i =>
        (gitlog.mergeCommits[k].hash \in Range(gitlog.raw)
           <=> isPRMergeCommit(gitlog.mergeCommits[k]))

(* ---- C27 ---- *)
\* C27: every run adds at most one message to the channel, a root or a
\* threaded reply, whatever its requests went through: the channel never
\* holds more messages than runs were started.
C27_OneMessagePerRun == Len(channel) <= started

(* ---- C28 ---- *)
\* C28: the message a run has found, which it updates and replies to, is
\* a root message of the channel composed for the repo and the branch of
\* the run: no threaded reply, no message of another branch.
C28_FoundIsOwnRoot ==
  \A r \in Runs :
    run[r].message_found = "true" =>
      \E i \in RootsOf(channel, Repo, run[r].branchName) :
        channel[i].ts = run[r].existing.ts

(* ---- C29 ---- *)
\* C29 as stated: after an update every ticket extracted from the commits
\* is linked in the ticket field of the root, also a ticket that occurred
\* only elsewhere in the thread until then.
C29_AllCommitTicketsLinked ==
  th.updates >= 1 =>
    Range(th.newJiraTickets) \subseteq Range(JiraField(th.root))

\* C29, amended: after an update a ticket extracted from the commits is
\* linked in the ticket field of the root exactly when the field had it
\* already or the ticket occurred nowhere in the thread, root and replies,
\* before the update; a ticket that occurred only elsewhere in the thread
\* (a reply, a branch name) is not linked.
C29_LinkedUnlessInThread ==
  th.updates >= 1 =>
    \A t \in Range(th.newJiraTickets) :
      t \in Range(JiraField(th.root))
        <=> \/ t \in Range(JiraField(th.before))
            \/ t \notin Accumulated

\* one update linked a commit ticket the thread did not have, and left out
\* a commit ticket that occurred only outside the ticket field
C29_Witness ==
  /\ th.updates >= 1
  /\ \E t \in Range(th.newJiraTickets) :
       /\ t \notin Accumulated
       /\ t \in Range(JiraField(th.root))
  /\ \E t \in Range(th.newJiraTickets) :
       /\ t \in Accumulated
       /\ t \notin Range(JiraField(th.before))
       /\ t \notin Range(JiraField(th.root))

(* ---- C30 ---- *)
\* C30: the update of the root is idempotent: when a run is repeated with
\* the same staging URL and the same commit tickets, the tickets of the
\* thread read again from the updated thread, the text of the root is
\* exactly the text the first update has produced.
C30_UpdateIdempotent ==
  helper.phase = "repeated" => helper.second = helper.first

====
